---- MODULE Spec2Model ----
(***************************************************************************)
(* Session-bridging reverse proxy of mobile-newsblur (backend worker,      *)
(* src/index.ts, kept here as src/unnamed/part_001).                       *)
(*                                                                         *)
(* The worker is a Hono application: a CORS middleware on /proxy/*, then   *)
(* the routes in the order they are registered.  Cross-request state is    *)
(* the KV namespace SESSIONS only; store writes and deletes are detached   *)
(* tasks handed to executionCtx.waitUntil.                                 *)
(***************************************************************************)
EXTENDS Integers, Sequences, FiniteSets, TLC

\* ------------------------------------------------------------------------
\* Bounds of the model
\* ------------------------------------------------------------------------
\* number of distinct ids crypto.randomUUID() can hand out in one behaviour
MaxSessions == 2
\* number of requests that can be suspended at an await at the same time
MaxInFlight == 1

\* ------------------------------------------------------------------------
\* Program constants
\* ------------------------------------------------------------------------
NEWSBLUR_BASE_URL == "https://newsblur.com"
PROXY_SESSION_COOKIE_NAME == "proxy_session_id"
sessionDurationSeconds == 24 * 60 * 60

\* undefined / null / absent header
Absent == "<absent>"
\* JavaScript truthiness of a string | undefined | null
Truthy(s) == s # Absent /\ s # ""

\* ------------------------------------------------------------------------
\* String helpers (String.prototype / RegExp behaviour used by the worker)
\* ------------------------------------------------------------------------
StartsWith(s, p) == Len(s) >= Len(p) /\ SubSeq(s, 1, Len(p)) = p

EndsWith(s, p) == Len(s) >= Len(p) /\ SubSeq(s, Len(s) - Len(p) + 1, Len(s)) = p

\* index of the first occurrence of p in s at or after position i, 0 if none
RECURSIVE FindFrom(_, _, _)
FindFrom(s, p, i) ==
    IF i + Len(p) - 1 > Len(s) THEN 0
    ELSE IF SubSeq(s, i, i + Len(p) - 1) = p THEN i
    ELSE FindFrom(s, p, i + 1)

\* s.replace(p, q) with a string pattern: only the first occurrence
ReplaceFirst(s, p, q) ==
    LET i == FindFrom(s, p, 1)
    IN  IF i = 0 THEN s
        ELSE SubSeq(s, 1, i - 1) \o q \o SubSeq(s, i + Len(p), Len(s))

\* the longest run of characters other than stop, starting at position i
RECURSIVE TakeUntil(_, _, _)
TakeUntil(s, i, stop) ==
    IF i > Len(s) \/ SubSeq(s, i, i) = stop THEN ""
    ELSE SubSeq(s, i, i) \o TakeUntil(s, i + 1, stop)

\* setCookieHeader.match(/newsblur_sessionid=([^;]+)/): group 1 of the
\* leftmost match, "" when the pattern does not match
RECURSIVE MatchSessionId(_, _)
MatchSessionId(h, i) ==
    LET key == "newsblur_sessionid="
        j   == FindFrom(h, key, i)
    IN  IF j = 0 THEN ""
        ELSE LET v == TakeUntil(h, j + Len(key), ";")
             IN  IF v # "" THEN v ELSE MatchSessionId(h, j + 1)

\* Headers lower-cases the names it is given
Lower(n) ==
    CASE n = "Content-Type"   -> "content-type"
      [] n = "Content-Length" -> "content-length"
      [] n = "Date"           -> "date"
      [] n = "ETag"           -> "etag"
      [] n = "Set-Cookie"     -> "set-cookie"
      [] n = "Location"       -> "location"
      [] n = "Server"         -> "server"
      [] OTHER                -> n

\* Headers.get(name): the value of the header, null when it is not there
HeadersGet(headers, lowerName) ==
    IF \E h \in headers : Lower(h[1]) = lowerName
    THEN (CHOOSE h \in headers : Lower(h[1]) = lowerName)[2]
    ELSE Absent

\* the capture without the check of the upstream status
ExtractCredential_AnyStatus(status, setCookieHeader) ==
    IF Truthy(setCookieHeader)
    THEN LET m == MatchSessionId(setCookieHeader, 1)
         IN  IF m # "" THEN "newsblur_sessionid=" \o m ELSE Absent
    ELSE Absent

\* lines 185-191: the credential the login handler captures, Absent if none
ExtractCredential(status, setCookieHeader) ==
    IF Truthy(setCookieHeader) /\ status >= 200 /\ status < 400
    THEN LET m == MatchSessionId(setCookieHeader, 1)
         IN  IF m # "" THEN "newsblur_sessionid=" \o m ELSE Absent
    ELSE Absent

\* ------------------------------------------------------------------------
\* Cookie policy resolver
\* ------------------------------------------------------------------------
\* new URL(c.req.url): scheme, hostname and port (default ports are dropped
\* by the parser); ok = FALSE when the constructor throws
ParseUrl(u) ==
    [ok       |-> u.ok,
     protocol |-> u.scheme \o ":",
     hostname |-> u.host,
     port     |-> IF (u.scheme = "http" /\ u.port = "80") \/
                     (u.scheme = "https" /\ u.port = "443")
                  THEN "" ELSE u.port]

\* URL.origin
UrlOrigin(p) ==
    p.protocol \o "//" \o p.hostname \o (IF p.port = "" THEN "" ELSE ":" \o p.port)

\* a resolver that falls back to any origin instead of throwing
getFrontendOrigin_NoThrow(requestOrigin, envUrl) ==
    IF Truthy(requestOrigin) THEN [throws |-> FALSE, origin |-> requestOrigin]
    ELSE IF Truthy(envUrl) THEN [throws |-> FALSE, origin |-> envUrl]
    ELSE [throws |-> FALSE, origin |-> "*"]

\* a resolver that prefers the configured origin to the request's
getFrontendOrigin_EnvFirst(requestOrigin, envUrl) ==
    IF Truthy(envUrl) THEN [throws |-> FALSE, origin |-> envUrl]
    ELSE IF Truthy(requestOrigin) THEN [throws |-> FALSE, origin |-> requestOrigin]
    ELSE [throws |-> TRUE, origin |-> Absent]

\* outcome of getFrontendOrigin: the origin, or a thrown HTTPException(500)
getFrontendOrigin(requestOrigin, envUrl) ==
    IF Truthy(requestOrigin) THEN [throws |-> FALSE, origin |-> requestOrigin]
    ELSE IF Truthy(envUrl) THEN [throws |-> FALSE, origin |-> envUrl]
    ELSE [throws |-> TRUE, origin |-> Absent]

\* a resolver that looks at the scheme only
getSecureFlag_SchemeOnly(u) ==
    LET url == ParseUrl(u)
    IN  IF ~url.ok THEN TRUE ELSE url.protocol = "https:"

\* a resolver that compares host names only
getSameSiteAttribute_HostOnly(u, requestOrigin) ==
    LET workerUrl == ParseUrl(u)
    IN  IF workerUrl.ok /\ Truthy(requestOrigin)
           /\ FindFrom(requestOrigin, "//" \o workerUrl.hostname, 1) # 0
        THEN "Lax" ELSE "None"

getSecureFlag(u) ==
    LET url == ParseUrl(u)
    IN  IF ~url.ok THEN TRUE
        ELSE LET isSecureProtocol == url.protocol = "https:"
                 isLocalDevHost   == url.hostname = "localhost" \/ url.hostname = "127.0.0.1"
             IN  IF isSecureProtocol THEN TRUE ELSE ~isLocalDevHost

getSameSiteAttribute(u, requestOrigin) ==
    LET workerUrl == ParseUrl(u)
    IN  IF workerUrl.ok /\ Truthy(requestOrigin) /\ requestOrigin = UrlOrigin(workerUrl)
        THEN "Lax" ELSE "None"

\* ------------------------------------------------------------------------
\* Inputs of the model
\* ------------------------------------------------------------------------
SessionIds == {"sid-" \o ToString(n) : n \in 1..MaxSessions}

\* the URLs a deployment of the worker is reached at
WorkerUrls ==
    {[ok |-> TRUE, scheme |-> "http",  host |-> "localhost",          port |-> "8787"],
     [ok |-> TRUE, scheme |-> "https", host |-> "worker.example.com", port |-> "443"]}

DevFrontend == "http://localhost:8080"

\* method and path of the requests that reach the forwarding handler
ForwardedKinds ==
    {<<"GET", "/proxy/reader/feeds">>, <<"POST", "/proxy/api/logout">>,
     <<"GET", "/proxy/favicon.ico">>}

\* form fields as c.req.parseBody() yields them: a string, a File, or nothing
StrField(v) == [type |-> "string", value |-> v]
FileField == [type |-> "object", value |-> ""]
NoField == [type |-> "undefined", value |-> ""]
NoBody == [parses |-> TRUE, username |-> NoField, password |-> NoField]
ValidLoginBody ==
    [parses |-> TRUE, username |-> StrField("alice"), password |-> StrField("secret")]
LoginBodies ==
    {ValidLoginBody,
     [parses |-> TRUE,  username |-> StrField("alice"), password |-> NoField],
     [parses |-> TRUE,  username |-> NoField,           password |-> StrField("secret")],
     [parses |-> TRUE,  username |-> StrField(""),      password |-> StrField("secret")],
     [parses |-> TRUE,  username |-> StrField("alice"), password |-> StrField("")],
     [parses |-> TRUE,  username |-> FileField,         password |-> StrField("secret")],
     [parses |-> TRUE,  username |-> StrField("alice"), password |-> FileField],
     [parses |-> FALSE, username |-> NoField,           password |-> NoField]}

\* what NewsBlur can answer to POST /api/login; error = the fetch rejects.
\* v is the value of the session NewsBlur opens for this login.
LoginUpstreamResults(v) ==
    {[error |-> TRUE,  status |-> 0, headers |-> {}, body |-> ""],
     [error |-> FALSE, status |-> 200,
      headers |-> {<<"Set-Cookie", "newsblur_sessionid=" \o v \o "; Path=/; HttpOnly">>},
      body |-> "{\"authenticated\":true}"],
     [error |-> FALSE, status |-> 302,
      headers |-> {<<"Set-Cookie", "csrftoken=t; Path=/, newsblur_sessionid=" \o v \o "; Path=/">>,
                   <<"Location", "/">>},
      body |-> "<html>"],
     [error |-> FALSE, status |-> 200, headers |-> {<<"Content-Type", "application/json">>},
      body |-> "{\"authenticated\":false}"],
     [error |-> FALSE, status |-> 200,
      headers |-> {<<"Set-Cookie", "newsblur_sessionid=; Max-Age=0">>},
      body |-> "{\"authenticated\":false}"],
     [error |-> FALSE, status |-> 403,
      headers |-> {<<"Set-Cookie", "newsblur_sessionid=" \o v \o "; Path=/">>},
      body |-> "<html>"],
     [error |-> FALSE, status |-> 500,
      headers |-> {<<"Set-Cookie", "csrftoken=t; Path=/">>},
      body |-> "<html>"],
     [error |-> FALSE, status |-> 401, headers |-> {<<"Content-Type", "application/json">>},
      body |-> "{\"authenticated\":false}"],
     [error |-> FALSE, status |-> 204, headers |-> {}, body |-> ""]}

\* upstream response headers as NewsBlur sends them: name, value
ApiHeaders ==
    {<<"Content-Type", "application/json">>, <<"Content-Length", "2">>,
     <<"Date", "d">>, <<"ETag", "e">>}
PageHeaders ==
    {<<"Content-Type", "text/html">>, <<"Set-Cookie", "newsblur_sessionid=u0; Path=/">>,
     <<"Location", "/account/login">>, <<"Server", "nginx">>, <<"ETag", "e">>}

\* what NewsBlur can answer to a forwarded request; error = the fetch rejects
UpstreamResults ==
    {[error |-> TRUE,  status |-> 0,   headers |-> {},          body |-> ""],
     [error |-> FALSE, status |-> 200, headers |-> ApiHeaders,  body |-> "{}"],
     [error |-> FALSE, status |-> 200, headers |-> PageHeaders, body |-> "<html>"],
     [error |-> FALSE, status |-> 302, headers |-> PageHeaders, body |-> ""],
     [error |-> FALSE, status |-> 401, headers |-> ApiHeaders,  body |-> "{}"],
     [error |-> FALSE, status |-> 403, headers |-> PageHeaders, body |-> "<html>"],
     [error |-> FALSE, status |-> 500, headers |-> {},          body |-> "<html>"]}

\* ------------------------------------------------------------------------
\* Hono: routing, context, responses
\* ------------------------------------------------------------------------
\* the handlers in the order index.ts registers them (after the middleware)
Routes ==
    << [method |-> "OPTIONS", pattern |-> "/proxy/*",          handler |-> "options"],
       [method |-> "POST",    pattern |-> "/proxy/api/login",  handler |-> "login"],
       [method |-> "ALL",     pattern |-> "/proxy/*",          handler |-> "proxy"],
       [method |-> "POST",    pattern |-> "/proxy/api/logout", handler |-> "logout"] >>

PathMatches(pattern, path) ==
    IF EndsWith(pattern, "/*")
    THEN StartsWith(path, SubSeq(pattern, 1, Len(pattern) - 1))
    ELSE path = pattern

RouteMatches(r, method, path) ==
    (r.method = "ALL" \/ r.method = method) /\ PathMatches(r.pattern, path)

\* Hono runs the matching handlers in registration order; none of the
\* handlers of index.ts calls next(), so the first match answers
FirstHandler(method, path) ==
    LET m == SelectSeq(Routes, LAMBDA r : RouteMatches(r, method, path))
    IN  IF m = << >> THEN "notFound" ELSE Head(m).handler

Header(n, v, f) == [name |-> n, value |-> v, from |-> f]

\* headers the cors() middleware puts on c.res
CorsHeaders(req, frontendOrigin) ==
    (IF req.origin # Absent /\ req.origin = frontendOrigin
     THEN {Header("access-control-allow-origin", frontendOrigin, "cors")} ELSE {})
    \cup {Header("access-control-allow-credentials", "true", "cors"),
          Header("access-control-expose-headers", "ETag", "cors"),
          Header("vary", "Origin", "cors")}
    \cup (IF req.method = "OPTIONS"
          THEN {Header("access-control-allow-methods", "GET,POST,PUT,DELETE,OPTIONS", "cors"),
                Header("access-control-allow-headers", "Content-Type,Authorization", "cors")}
          ELSE {})

\* setCookie(c, name, value, opt)
SetCookie(value, path, httpOnly, secure, sameSite, maxAge) ==
    [name |-> PROXY_SESSION_COOKIE_NAME, value |-> value, path |-> path,
     httpOnly |-> httpOnly, secure |-> secure, sameSite |-> sameSite, maxAge |-> maxAge]

\* deleteCookie(c, name, opt) is setCookie(c, name, '', {...opt, maxAge: 0})
DeleteCookie(path, httpOnly, secure, sameSite) ==
    SetCookie("", path, httpOnly, secure, sameSite, 0)

\* the fetch a handler made, and what came back (status 0: the fetch rejected)
NoCall ==
    [called |-> FALSE, method |-> "", url |-> "", cookie |-> Absent,
     status |-> 0, headers |-> {}, body |-> ""]
UpstreamCall(method, url, cookie, r) ==
    [called |-> TRUE, method |-> method, url |-> url, cookie |-> cookie,
     status |-> IF r.error THEN 0 ELSE r.status,
     headers |-> IF r.error THEN {} ELSE r.headers,
     body |-> IF r.error THEN "" ELSE r.body]

NoResponse == [status |-> 0]

\* what one request did and what the client got back
Exchange(req, handler, status, body, headers, cookies, kv, up, scheduled, hist) ==
    [req |-> req, handler |-> handler, status |-> status, body |-> body,
     headers |-> headers, cookies |-> cookies, kv |-> kv, upstream |-> up,
     scheduled |-> scheduled, hist |-> hist]

\* c.json(body, status): the Response is built from the context, so it
\* carries the headers and cookies set on the context
Json(req, handler, status, body, cors, ctxCookies, kv, up, scheduled, hist) ==
    {Exchange(req, handler, status, body,
              cors \cup {Header("content-type", "application/json", "handler")},
              ctxCookies, kv, up, scheduled, hist)}

\* A Response that is not built from the context: `new Response(...)`
\* returned by a handler, or err.getResponse() returned by app.onError for
\* a thrown HTTPException.  Hono copies the headers of c.res (where cors()
\* wrote) into it.  Cookies set with setCookie/deleteCookie are kept in the
\* context's own header table in some Hono releases and in c.res in others,
\* so they reach such a Response in some builds and are dropped in others.
Raw(req, handler, status, body, headers, cors, ctxCookies, kv, up, scheduled, hist) ==
    {Exchange(req, handler, status, body, headers \cup cors, kept, kv, up, scheduled, hist) :
        kept \in {ctxCookies, {}}}

\* ------------------------------------------------------------------------
\* State
\* ------------------------------------------------------------------------
VARIABLES
    env,        \* bindings of the deployment: FRONTEND_URL, SESSIONS
    workerUrl,  \* URL the deployment is reached at (c.req.url without path)
    store,      \* KV namespace SESSIONS: session id -> credential
    tasks,      \* detached tasks given to executionCtx.waitUntil
    issued,     \* history: session id -> credential captured when it was minted
    putCount,   \* history: number of store puts scheduled under each key
    rejected,   \* history: ids for which upstream answered 401/403
    acked,      \* history: ids whose login was answered with the success body
    lostPuts,   \* history: ids whose detached put rejected
    purged,     \* history: ids whose invalidation delete has taken effect
    inflight,   \* requests suspended at an await
    out,        \* the exchange completed by the last step, if any
    policy,     \* cookie attributes resolved for the last request
    isLoading,      \* frontend app.ts: let isLoading
    currentFeeds,   \* frontend app.ts: let currentFeeds
    currentStories, \* frontend app.ts: let currentStories
    dom,        \* frontend: what the page shows
    pending,    \* frontend: handlers suspended at an await of an API call
    lastEvent,  \* frontend: the event the last step handled
    bootTrace   \* frontend history: API functions called by the startup flow

\* variables of the browser side and of the cookie policy resolver
clientVars == <<policy, isLoading, currentFeeds, currentStories, dom, pending, lastEvent,
                bootTrace>>

vars == <<env, workerUrl, store, tasks, issued, putCount, rejected, acked, lostPuts, purged,
          inflight, out, clientVars>>

Slots == 1..MaxInFlight
Idle == [pc |-> "idle", handler |-> "none"]

\* no cookie has been set yet
NoPolicy == [evaluated |-> FALSE, origin |-> Absent, secure |-> TRUE, sameSite |-> "None"]

\* the page as index.html delivers it: no view chosen by the script yet,
\* empty lists and message areas, the login button enabled
InitialDom ==
    [view |-> "index.html", loginMessage |-> "", loginMessageIsError |-> FALSE,
     loginButtonDisabled |-> FALSE, feedMessage |-> "", feedMessageIsError |-> FALSE,
     feedList |-> <<>>, storyMessage |-> "", storyList |-> <<>>, storyListTitle |-> "",
     storyContent |-> ""]

\* a list valued field of a JSON body, and the field missing
List(xs) == [has |-> TRUE, items |-> xs]
NoList == [has |-> FALSE, items |-> <<>>]

\* a parsed JSON object with the fields the frontend reads
ApiObject(message, errors, authenticated, feeds, stories) ==
    [kind |-> "object", message |-> message, errors |-> errors,
     authenticated |-> authenticated, feeds |-> feeds, stories |-> stories]

\* {}
EmptyObject == ApiObject(Absent, NoList, Absent, NoList, NoList)

\* null or undefined where an object could be
NullData == [EmptyObject EXCEPT !.kind = "null"]

\* what fetch() gave: a rejection, or a Response with a status and a body
\* that JSON.parse accepts or not
FetchRejected == [rejects |-> TRUE, status |-> 0, parses |-> FALSE, body |-> NullData]
FetchResponse(status, parses, body) ==
    [rejects |-> FALSE, status |-> status, parses |-> parses, body |-> body]

\* the Error objects of api.ts: message, status (when set) and data
ApiError(hasStatus, status, message, data) ==
    [hasStatus |-> hasStatus, status |-> status, message |-> message, data |-> data]
NoError == ApiError(FALSE, 0, "", NullData)

\* no event handled yet
NoEvent == [name |-> "none", fn |-> "none", root |-> "none", loading |-> FALSE,
            settled |-> "none", outcome |-> FetchRejected, result |-> "none",
            error |-> NoError, started |-> "none"]

\* the module state of app.ts before initializeApp runs, no page loaded
ClientAtRest ==
    /\ policy = NoPolicy
    /\ isLoading = FALSE
    /\ currentFeeds = <<>>
    /\ currentStories = <<>>
    /\ dom = InitialDom
    /\ pending = <<>>
    /\ lastEvent = NoEvent
    /\ bootTrace = <<>>

Init ==
    /\ env \in [FRONTEND_URL : {Absent, DevFrontend}, SESSIONS : {Absent, "bound"}]
    /\ workerUrl \in WorkerUrls
    /\ store = [k \in SessionIds |-> Absent]
    /\ tasks = {}
    /\ issued = [k \in SessionIds |-> Absent]
    /\ putCount = [k \in SessionIds |-> 0]
    /\ rejected = {}
    /\ acked = {}
    /\ lostPuts = {}
    /\ purged = {}
    /\ inflight = [i \in Slots |-> Idle]
    /\ out = NoResponse
    /\ ClientAtRest

\* ------------------------------------------------------------------------
\* Requests
\* ------------------------------------------------------------------------
Request(m, p, o, c, b) ==
    [method |-> m, path |-> p, search |-> "", origin |-> o, cookie |-> c, body |-> b]

\* the same request with a query string
WithSearch(req, q) == [req EXCEPT !.search = q]

\* Origin header of a request: none, the worker's own origin, another origin
RequestOrigins == {Absent, UrlOrigin(ParseUrl(workerUrl)), DevFrontend}

\* proxy_session_id cookie of a request: none, empty, or some id
RequestCookies == {Absent, ""} \cup SessionIds

\* the traffic of the model: logins (every body with the frontend's origin,
\* the well-formed body with every origin), forwarded requests with every
\* cookie, requests without an Origin header, and a preflight
Requests ==
    {Request("POST", "/proxy/api/login", DevFrontend, Absent, b) : b \in LoginBodies}
    \cup
    {Request("POST", "/proxy/api/login", o, Absent, ValidLoginBody) : o \in RequestOrigins}
    \cup
    {Request(k[1], k[2], DevFrontend, c, NoBody) : k \in ForwardedKinds, c \in RequestCookies}
    \cup
    {Request("GET", "/proxy/reader/feeds", Absent, c, NoBody) : c \in RequestCookies}
    \cup
    {Request("POST", "/proxy/api/login", Absent, Absent, NoBody)}
    \cup
    {Request("OPTIONS", "/proxy/reader/feeds", o, Absent, NoBody) : o \in {Absent, DevFrontend}}
    \cup
    {Request("OPTIONS", "/proxy/api/login", DevFrontend, Absent, NoBody),
     Request("POST", "/proxy/api/logout", Absent, Absent, NoBody)}
    \cup
    {WithSearch(Request("GET", "/proxy/reader/proxy/river", DevFrontend, c, NoBody), "?page=2") :
        c \in SessionIds}

\* ------------------------------------------------------------------------
\* Handlers
\* ------------------------------------------------------------------------
\* a put without an expiry
Put_NoTtl(key, value) == [op |-> "put", key |-> key, value |-> value, ttl |-> 0]

\* lines 201-203
Put(key, value) == [op |-> "put", key |-> key, value |-> value, ttl |-> sessionDurationSeconds]
Del(key) == [op |-> "delete", key |-> key, value |-> Absent, ttl |-> 0]

Respond(resps) == [suspend |-> FALSE, resps |-> resps, rec |-> Idle]
Suspend(rec) == [suspend |-> TRUE, resps |-> {}, rec |-> rec]

\* a handler that fetches once more when the fetch rejected
OnFetchSettled_RetryOnError(rec, r, resps) ==
    IF r.error /\ rec.fetches < 2
    THEN Suspend([rec EXCEPT !.fetches = @ + 1])
    ELSE Respond(resps)

\* lines 166 and 289: the one `await fetch(...)` of a handler; whatever it
\* yields, the handler goes on to its response
OnFetchSettled(rec, r, resps) == Respond(resps)

\* what is remembered about a request for the properties: whether its id
\* had been rejected by upstream when it arrived, whether its store read
\* came after the invalidation delete, whether its store read threw, and
\* the origin the CORS middleware was configured with (line 127)
NoHist == [late |-> FALSE, afterPurge |-> FALSE, readFailed |-> FALSE, corsOrigin |-> Absent]

\* the field check without its `!username || !password` part
LoginFieldsValid_TypesOnly(body) ==
    body.username.type = "string" /\ body.password.type = "string"

\* line 153: the check of the login form fields
LoginFieldsValid(body) ==
    /\ body.username.type = "string"
    /\ body.password.type = "string"
    /\ body.username.value # ""
    /\ body.password.value # ""

\* lines 146-178: the login handler up to its upstream fetch
LoginHandlerStart(req, cors, hist) ==
    IF ~req.body.parses
    THEN Respond(Raw(req, "login", 400, "Invalid request body.", {}, cors, {},
                     "none", NoCall, {}, hist))
    ELSE IF ~LoginFieldsValid(req.body)
    THEN Respond(Raw(req, "login", 400, "Username and password are required strings.",
                     {}, cors, {}, "none", NoCall, {}, hist))
    ELSE Suspend([pc |-> "fetch", handler |-> "login", req |-> req, cred |-> Absent,
                  hist |-> hist, fetches |-> 1])

\* an id generator that can hand out an id a second time
randomUUID_Repeating(given) == SessionIds

\* crypto.randomUUID(): an id that was never handed out before
randomUUID(given) == {k \in SessionIds : given[k] = Absent}

IsJson(body) == StartsWith(body, "{")

\* line 218: the body of the login acknowledgment
LoginSuccessBody == "{\"authenticated\":true,\"message\":\"Login successful (proxy)\"}"

\* line 228: the body used when the upstream body is not JSON
LoginFailedBody == "{\"authenticated\":false,\"message\":\"Login failed on NewsBlur.\"}"

\* a failure answered 401 whatever upstream said
LoginFailureStatus_Always401(upstreamStatus) == 401

\* line 237: c.json(errorBody, loginResponse.status)
LoginFailureStatus(upstreamStatus) == upstreamStatus

\* line 237: c.json builds `new Response(body, {status})`, and the Response
\* constructor throws a TypeError for a body with a null-body status
NullBodyStatus(status) == status \in {101, 204, 205, 304}

\* every caught error answered 500
LoginCatchStatus_Always500(isHTTPException, status) == 500

\* every caught error answered 502
LoginCatchStatus_Always502(isHTTPException, status) == 502

\* lines 240-244: an HTTPException is rethrown, any other error becomes 502
LoginCatchStatus(isHTTPException, status) == IF isHTTPException THEN status ELSE 502

\* the cookie given the captured upstream credential as its value
SessionCookieValue_Credential(sessionId, newsblurSessionCookieValue) ==
    newsblurSessionCookieValue

\* line 216: setCookie(c, PROXY_SESSION_COOKIE_NAME, sessionId, cookieOptions)
SessionCookieValue(sessionId, newsblurSessionCookieValue) == sessionId

\* lines 180-244: the login handler after its upstream fetch settled
LoginHandlerFinish(rec, r, sessionId) ==
    LET req  == rec.req
        cors == CorsHeaders(req, getFrontendOrigin(req.origin, env.FRONTEND_URL).origin)
        call == UpstreamCall("POST", NEWSBLUR_BASE_URL \o "/api/login", Absent, r)
        setCookieHeader == HeadersGet(r.headers, "set-cookie")
        newsblurSessionCookieValue ==
            IF r.error THEN Absent ELSE ExtractCredential(r.status, setCookieHeader)
    IN  IF r.error
        THEN Raw(req, "login", LoginCatchStatus(FALSE, 0),
                 "Proxy error contacting NewsBlur login.", {}, cors, {},
                 "none", call, {}, rec.hist)
        ELSE IF Truthy(newsblurSessionCookieValue)
        THEN IF env.SESSIONS = Absent
             THEN \* lines 200-201 throw before the put is handed over; line 223
                  Raw(req, "login", LoginCatchStatus(TRUE, 500),
                      "Proxy internal server error (KV Store configuration issue?).",
                      {}, cors, {}, "putThrow", call, {}, rec.hist)
             ELSE Json(req, "login", 200, LoginSuccessBody, cors,
                       {SetCookie(SessionCookieValue(sessionId, newsblurSessionCookieValue),
                                  "/", TRUE, getSecureFlag(workerUrl),
                                  getSameSiteAttribute(workerUrl, req.origin),
                                  sessionDurationSeconds)},
                       "none", call, {Put(sessionId, newsblurSessionCookieValue)}, rec.hist)
        ELSE IF NullBodyStatus(LoginFailureStatus(r.status))
        THEN \* c.json throws after deleteCookie ran; caught at line 240
             Raw(req, "login", LoginCatchStatus(FALSE, 0),
                 "Proxy error contacting NewsBlur login.", {}, cors,
                 {DeleteCookie("/", FALSE, FALSE, "")}, "none", call, {}, rec.hist)
        ELSE Json(req, "login", LoginFailureStatus(r.status),
                  IF IsJson(r.body) THEN r.body ELSE LoginFailedBody,
                  cors, {DeleteCookie("/", FALSE, FALSE, "")},
                  "none", call, {}, rec.hist)

\* any GET without a cookie taken for a favicon probe
IsFaviconProbe_AnyGet(req) == req.method = "GET"

\* line 253
IsFaviconProbe(req) == req.method = "GET" /\ EndsWith(req.path, "favicon.ico")

\* lines 249-263: the forwarding handler up to its store read
ProxyHandlerStart(req, cors, hist) ==
    LET sessionId == req.cookie
    IN  IF ~Truthy(sessionId)
        THEN IF IsFaviconProbe(req)
             THEN Respond(Raw(req, "proxy", 404, "", {}, cors, {}, "none", NoCall, {}, hist))
             ELSE Respond(Raw(req, "proxy", 401, "Not authenticated via proxy. Please log in.",
                              {}, cors, {}, "none", NoCall, {}, hist))
        ELSE Suspend([pc |-> "kvget", handler |-> "proxy", req |-> req, cred |-> Absent,
                      hist |-> hist, fetches |-> 0])

\* lines 364-365: the generic branch of app.onError, for the error Hono
\* raises when the handlers ended without a Response on the context (the
\* library's message goes on with a hint, left out here)
NotFinalizedBody ==
    "{\"message\":\"Internal Server Error\",\"error\":\"Context is not finalized.\"}"

\* lines 123-140: cors() answers an OPTIONS request itself: it writes the
\* preflight headers to c.res and returns a 204 Response without calling
\* next(), so app.options (line 137) never runs.  The wrapper of line 133
\* awaits that Response and does not return it: the context is left without
\* a Response, Hono raises "Context is not finalized" and app.onError
\* answers with its generic branch, c.json(..., 500), which carries the
\* headers of c.res.
PreflightResponse(req, cors, hist) ==
    Respond(Json(req, "cors", 500, NotFinalizedBody, cors, {}, "none", NoCall, {}, hist))

\* an empty read taken for a credential
StoreReadOutcome_MissIsHit(threw, value) == IF threw THEN "throw" ELSE "hit"

\* the cookie alone taken for a live session
StoreReadOutcome_CookieSuffices(threw, value) == "hit"

\* a failed read taken for an empty one
StoreReadOutcome_ThrowIsMiss(threw, value) ==
    IF threw \/ ~Truthy(value) THEN "miss" ELSE "hit"

\* lines 261-269: try { get } catch -> "throw"; !newsblurCookieValue -> "miss"
StoreReadOutcome(threw, value) ==
    IF threw THEN "throw" ELSE IF ~Truthy(value) THEN "miss" ELSE "hit"

\* lines 263-273: the forwarding handler after SESSIONS.get settled
ProxyHandlerRead(rec, threw, value) ==
    LET req  == rec.req
        cors == CorsHeaders(req, getFrontendOrigin(req.origin, env.FRONTEND_URL).origin)
        kv   == StoreReadOutcome(threw, value)
    IN  CASE kv = "throw" ->
                Respond(Raw(req, "proxy", 500,
                            "Proxy internal server error (KV Store read failure). Check binding.",
                            {}, cors, {}, kv, NoCall, {}, rec.hist))
          [] kv = "miss" ->
                Respond(Raw(req, "proxy", 401,
                            "Proxy session expired or invalid. Please log in again.",
                            {}, cors, {DeleteCookie("/", FALSE, FALSE, "")},
                            kv, NoCall, {}, rec.hist))
          [] OTHER -> Suspend([rec EXCEPT !.pc = "fetch", !.cred = value, !.fetches = @ + 1])

\* an allow-list that also lets Set-Cookie through
AllowedResponseHeader_WithSetCookie(lowerKey) ==
    lowerKey \in {"content-type", "content-length", "date", "etag", "set-cookie"}

\* line 309
AllowedResponseHeader(lowerKey) ==
    lowerKey \in {"content-type", "content-length", "date", "etag"}

\* lines 306-312
CopyResponseHeaders(upstreamHeaders) ==
    {Header(Lower(h[1]), h[2], "upstream") :
        h \in {x \in upstreamHeaders : AllowedResponseHeader(Lower(x[1]))}}

\* every upstream error status taken for an authentication error
IsUpstreamAuthError_AnyError(status) == status >= 400

\* the upstream check without the 403 case
IsUpstreamAuthError_Only401(status) == status = 401

\* line 298
IsUpstreamAuthError(status) == status = 401 \/ status = 403

\* the client's own cookie left in place of the stored credential
UpstreamCookieHeader_ClientCookie(sessionId, newsblurCookieValue) ==
    PROXY_SESSION_COOKIE_NAME \o "=" \o sessionId

\* line 283: requestHeaders.set('Cookie', newsblurCookieValue)
UpstreamCookieHeader(sessionId, newsblurCookieValue) == newsblurCookieValue

\* the target without the query string
TargetUrl_DropsQuery(pathname, search) ==
    NEWSBLUR_BASE_URL \o ReplaceFirst(pathname, "/proxy", "")

\* lines 275-277
TargetUrl(pathname, search) ==
    NEWSBLUR_BASE_URL \o ReplaceFirst(pathname, "/proxy", "") \o search

\* a network error answered like an unexpected error
ProxyCatchStatus_Always500(isHTTPException, status) ==
    IF isHTTPException THEN status ELSE 500

\* lines 321-325: an HTTPException is rethrown, any other error becomes 502
ProxyCatchStatus(isHTTPException, status) == IF isHTTPException THEN status ELSE 502

\* every streamed response sent as 200
StreamStatus_Always200(upstreamStatus) == 200

\* line 316: status: newsblurResponse.status
StreamStatus(upstreamStatus) == upstreamStatus

\* lines 275-325: the forwarding handler after its upstream fetch settled
ProxyHandlerFinish(rec, r) ==
    LET req        == rec.req
        sessionId  == req.cookie
        cors       == CorsHeaders(req, getFrontendOrigin(req.origin, env.FRONTEND_URL).origin)
        targetUrl  == TargetUrl(req.path, req.search)
        call       == UpstreamCall(req.method, targetUrl,
                                   UpstreamCookieHeader(sessionId, rec.cred), r)
    IN  IF r.error
        THEN Raw(req, "proxy", ProxyCatchStatus(FALSE, 0),
                 "Proxy error contacting NewsBlur upstream.", {}, cors, {},
                 "hit", call, {}, rec.hist)
        ELSE IF IsUpstreamAuthError(r.status)
        THEN Raw(req, "proxy", ProxyCatchStatus(TRUE, 401),
                 "NewsBlur session expired or invalid. Please log in again via proxy.",
                 {}, cors, {DeleteCookie("/", FALSE, FALSE, "")},
                 "hit", call, {Del(sessionId)}, rec.hist)
        ELSE Raw(req, "proxy", StreamStatus(r.status), r.body, CopyResponseHeaders(r.headers),
                 cors, {},
                 "hit", call, {}, rec.hist)

\* lines 329-354: the logout handler. Without the SESSIONS binding the
\* argument of waitUntil, c.env.SESSIONS.delete(sessionId), throws before
\* anything is handed over; the catch of line 338 swallows it.
LogoutHandler(req, cors, hist) ==
    LET sessionId == req.cookie
    IN  Respond(Json(req, "logout", 200, "{\"message\":\"Logged out successfully.\"}", cors,
                     {DeleteCookie("/", TRUE, getSecureFlag(workerUrl), "Lax")},
                     "none", NoCall,
                     IF Truthy(sessionId) /\ env.SESSIONS # Absent
                     THEN {Del(sessionId)} ELSE {}, hist))

\* lines 123-140 and Hono's dispatch: the CORS middleware, then the first
\* matching handler, run up to its first await on the store or on upstream
Dispatch(req) ==
    LET fo      == getFrontendOrigin(req.origin, env.FRONTEND_URL)
        cors    == CorsHeaders(req, fo.origin)
        handler == FirstHandler(req.method, req.path)
        hist    == [NoHist EXCEPT !.late = req.cookie \in rejected, !.corsOrigin = fo.origin]
    IN  IF fo.throws
        THEN Respond(Raw(req, "cors", 500,
                         "Worker configuration error: Frontend origin cannot be determined.",
                         {}, {}, {}, "none", NoCall, {}, hist))
        ELSE IF req.method = "OPTIONS"
        THEN PreflightResponse(req, cors, hist)
        ELSE CASE handler = "login"  -> LoginHandlerStart(req, cors, hist)
               [] handler = "proxy"  -> ProxyHandlerStart(req, cors, hist)
               [] handler = "logout" -> LogoutHandler(req, cors, hist)
               [] OTHER -> Respond(Raw(req, "notFound", 404, "404 Not Found", {}, cors, {},
                                       "none", NoCall, {}, hist))

\* ------------------------------------------------------------------------
\* Actions
\* ------------------------------------------------------------------------
Minted == {k \in SessionIds : issued[k] # Absent}

LoginsInFlight == {i \in DOMAIN inflight : inflight[i].handler = "login"}

\* an exchange completes: its response goes out, the tasks it handed to
\* waitUntil start running
Complete(x, rest) ==
    /\ out' = x
    /\ inflight' = rest
    /\ tasks' = tasks \cup x.scheduled
    /\ putCount' = [k \in SessionIds |->
                       putCount[k] + Cardinality({t \in x.scheduled : t.op = "put" /\ t.key = k})]
    /\ issued' = [k \in SessionIds |->
                     IF issued[k] = Absent /\ \E t \in x.scheduled : t.op = "put" /\ t.key = k
                     THEN (CHOOSE t \in x.scheduled : t.op = "put" /\ t.key = k).value
                     ELSE issued[k]]
    /\ rejected' = IF x.handler = "proxy" /\ x.upstream.status \in {401, 403}
                   THEN rejected \cup {x.req.cookie} ELSE rejected
    /\ acked' = IF x.handler = "login" /\ x.status = 200 /\ x.body = LoginSuccessBody
                THEN acked \cup {t.key : t \in x.scheduled} ELSE acked

\* a request arrives and runs up to its first await
Receive(req) ==
    LET st == Dispatch(req)
    IN  /\ out = NoResponse
        /\ IF st.suspend
           THEN /\ st.rec.handler = "login" =>
                       Cardinality(Minted) + Cardinality(LoginsInFlight) < MaxSessions
                /\ \E i \in DOMAIN inflight :
                       /\ inflight[i] = Idle
                       /\ \A j \in 1..(i - 1) : inflight[j] # Idle
                       /\ inflight' = [inflight EXCEPT ![i] = st.rec]
                /\ out' = NoResponse
                /\ UNCHANGED <<tasks, issued, putCount, rejected, acked>>
           ELSE \E x \in st.resps : Complete(x, inflight)
        /\ UNCHANGED <<env, workerUrl, store, purged, lostPuts, clientVars>>

\* whether `await c.env.SESSIONS.get(sessionId)` throws: always when the
\* binding is missing, now and then when the store is unreachable
StoreReadFailures == IF env.SESSIONS = Absent THEN {TRUE} ELSE BOOLEAN

\* SESSIONS.get of a forwarded request settles
StoreRead(i) ==
    /\ out = NoResponse
    /\ inflight[i].pc = "kvget"
    /\ \E threw \in StoreReadFailures :
          LET rec == [inflight[i] EXCEPT !.hist.afterPurge = inflight[i].req.cookie \in purged,
                                         !.hist.readFailed = threw]
              st  == ProxyHandlerRead(rec, threw, store[rec.req.cookie])
          IN  IF st.suspend
              THEN /\ inflight' = [inflight EXCEPT ![i] = st.rec]
                   /\ out' = NoResponse
                   /\ UNCHANGED <<tasks, issued, putCount, rejected, acked>>
              ELSE \E x \in st.resps : Complete(x, [inflight EXCEPT ![i] = Idle])
    /\ UNCHANGED <<env, workerUrl, store, purged, lostPuts, clientVars>>

\* the upstream fetch of a forwarded request settles
UpstreamResponds(i) ==
    /\ out = NoResponse
    /\ inflight[i].pc = "fetch"
    /\ inflight[i].handler = "proxy"
    /\ \E r \in UpstreamResults :
          LET st == OnFetchSettled(inflight[i], r, ProxyHandlerFinish(inflight[i], r))
          IN  IF st.suspend
              THEN /\ inflight' = [inflight EXCEPT ![i] = st.rec]
                   /\ out' = NoResponse
                   /\ UNCHANGED <<tasks, issued, putCount, rejected, acked>>
              ELSE \E x \in st.resps : Complete(x, [inflight EXCEPT ![i] = Idle])
    /\ UNCHANGED <<env, workerUrl, store, purged, lostPuts, clientVars>>

\* the upstream fetch of a login settles
LoginUpstreamResponds(i) ==
    /\ out = NoResponse
    /\ inflight[i].pc = "fetch"
    /\ inflight[i].handler = "login"
    /\ \E r \in LoginUpstreamResults("u" \o ToString(Cardinality(Minted) + 1)) :
          \E sessionId \in randomUUID(issued) :
              LET st == OnFetchSettled(inflight[i], r,
                                       LoginHandlerFinish(inflight[i], r, sessionId))
              IN  IF st.suspend
                  THEN /\ inflight' = [inflight EXCEPT ![i] = st.rec]
                       /\ out' = NoResponse
                       /\ UNCHANGED <<tasks, issued, putCount, rejected, acked>>
                  ELSE \E x \in st.resps : Complete(x, [inflight EXCEPT ![i] = Idle])
    /\ UNCHANGED <<env, workerUrl, store, purged, lostPuts, clientVars>>

\* the runtime has sent the Response of the finished exchange
ResponseSent ==
    /\ out # NoResponse
    /\ out' = NoResponse
    /\ UNCHANGED <<env, workerUrl, store, tasks, issued, putCount, rejected, acked, lostPuts,
                 purged, inflight, clientVars>>

\* KV semantics of a task
StoreApply(kv, t) ==
    IF t.op = "put" THEN [kv EXCEPT ![t.key] = t.value]
    ELSE [kv EXCEPT ![t.key] = Absent]

\* a detached put or delete takes effect in the store
TaskTakesEffect(t) ==
    /\ out = NoResponse
    /\ t \in tasks
    /\ store' = StoreApply(store, t)
    /\ tasks' = tasks \ {t}
    /\ purged' = IF t.op = "delete" THEN purged \cup {t.key} ELSE purged
    /\ UNCHANGED <<env, workerUrl, issued, putCount, rejected, acked, lostPuts, inflight, out, clientVars>>

\* a detached put or delete rejects; nothing awaits it
TaskFails(t) ==
    /\ out = NoResponse
    /\ t \in tasks
    /\ tasks' = tasks \ {t}
    /\ lostPuts' = IF t.op = "put" THEN lostPuts \cup {t.key} ELSE lostPuts
    /\ UNCHANGED <<env, workerUrl, store, issued, putCount, rejected, acked, purged, inflight, out, clientVars>>

\* expirationTtl: the store drops an entry 24 hours after its put
TtlExpires(k) ==
    /\ out = NoResponse
    /\ store[k] # Absent
    /\ store' = [store EXCEPT ![k] = Absent]
    /\ UNCHANGED <<env, workerUrl, tasks, issued, putCount, rejected, acked, lostPuts, purged,
                   inflight, out, clientVars>>

Next ==
    \/ \E req \in Requests : Receive(req)
    \/ \E i \in Slots : StoreRead(i)
    \/ \E i \in Slots : UpstreamResponds(i)
    \/ \E i \in Slots : LoginUpstreamResponds(i)
    \/ ResponseSent
    \/ \E t \in tasks : TaskTakesEffect(t)
    \/ \E t \in tasks : TaskFails(t)
    \/ \E k \in SessionIds : TtlExpires(k)

Spec == Init /\ [][Next]_vars

\* ------------------------------------------------------------------------
\* Concurrent forwarded requests of one session
\* ------------------------------------------------------------------------
\* requests the worker handles at the same time in this specification
MaxConcurrent == 2

ConcurrentSlots == 1..MaxConcurrent

\* the session every request of this specification presents
TheSession == "sid-1"

\* a deployment after one login whose put has taken effect
InitConcurrent ==
    /\ env = [FRONTEND_URL |-> DevFrontend, SESSIONS |-> "bound"]
    /\ workerUrl \in WorkerUrls
    /\ store = [k \in SessionIds |->
                   IF k = TheSession THEN "newsblur_sessionid=u1" ELSE Absent]
    /\ issued = store
    /\ putCount = [k \in SessionIds |-> IF k = TheSession THEN 1 ELSE 0]
    /\ acked = {TheSession}
    /\ tasks = {}
    /\ rejected = {}
    /\ lostPuts = {}
    /\ purged = {}
    /\ inflight = [i \in ConcurrentSlots |-> Idle]
    /\ out = NoResponse
    /\ ClientAtRest

\* forwarded requests of the session
ConcurrentRequests ==
    {Request(k[1], k[2], DevFrontend, TheSession, NoBody) : k \in ForwardedKinds}

NextConcurrent ==
    \/ \E req \in ConcurrentRequests : Receive(req)
    \/ \E i \in ConcurrentSlots : StoreRead(i)
    \/ \E i \in ConcurrentSlots : UpstreamResponds(i)
    \/ ResponseSent
    \/ \E t \in tasks : TaskTakesEffect(t)
    \/ \E t \in tasks : TaskFails(t)
    \/ \E k \in SessionIds : TtlExpires(k)

SpecConcurrent == InitConcurrent /\ [][NextConcurrent]_vars

\* ------------------------------------------------------------------------
\* The cookie policy resolver applied to requests of every shape
\* ------------------------------------------------------------------------
\* URLs of requests: both schemes, local and deployed hosts, default and
\* other ports, and a string new URL() rejects
PolicyUrls ==
    [ok : {TRUE}, scheme : {"http", "https"},
     host : {"localhost", "127.0.0.1", "worker.example.com"},
     port : {"80", "443", "8787"}]
    \cup {[ok |-> FALSE, scheme |-> "", host |-> "", port |-> ""]}

\* Origin headers of requests: none, empty, the origin of every URL, an
\* origin that spells out its default port, and an unrelated one
PolicyOrigins ==
    {Absent, "", DevFrontend, "https://worker.example.com:443", "http://localhost:80"}
    \cup {UrlOrigin(ParseUrl(u)) : u \in {v \in PolicyUrls : v.ok}}

\* the worker at rest: only the resolver runs in this specification
WorkerAtRest ==
    /\ env = [FRONTEND_URL |-> DevFrontend, SESSIONS |-> "bound"]
    /\ store = [k \in SessionIds |-> Absent]
    /\ tasks = {}
    /\ issued = [k \in SessionIds |-> Absent]
    /\ putCount = [k \in SessionIds |-> 0]
    /\ rejected = {}
    /\ acked = {}
    /\ lostPuts = {}
    /\ purged = {}
    /\ inflight = [i \in Slots |-> Idle]
    /\ out = NoResponse

workerVars == <<env, workerUrl, store, tasks, issued, putCount, rejected, acked, lostPuts,
                purged, inflight, out>>

InitPolicy ==
    /\ WorkerAtRest
    /\ ClientAtRest
    /\ workerUrl \in PolicyUrls

\* a handler resolves the attributes of the cookie it is about to set
ResolveCookiePolicy(requestOrigin) ==
    /\ policy' = [evaluated |-> TRUE, origin |-> requestOrigin,
                  secure |-> getSecureFlag(workerUrl),
                  sameSite |-> getSameSiteAttribute(workerUrl, requestOrigin)]
    /\ UNCHANGED <<workerVars, isLoading, currentFeeds, currentStories, dom, pending,
                   lastEvent, bootTrace>>

NextPolicy == \E o \in PolicyOrigins : ResolveCookiePolicy(o)

SpecPolicy == InitPolicy /\ [][NextPolicy]_vars

\* ------------------------------------------------------------------------
\* Frontend: api.ts
\* ------------------------------------------------------------------------
\* Array.prototype.join
RECURSIVE Join(_, _)
Join(xs, sep) ==
    IF xs = <<>> THEN ""
    ELSE IF Len(xs) = 1 THEN xs[1]
    ELSE xs[1] \o sep \o Join(Tail(xs), sep)

\* a settled promise of an API function
Resolved(data) == [resolved |-> TRUE, data |-> data, error |-> NoError]
Rejected(error) == [resolved |-> FALSE, data |-> NullData, error |-> error]

\* the error apiFetch throws for anything that is not its own ApiError:
\* no status, the original message under data.message
GenericError(original) ==
    ApiError(FALSE, 0, "Network error or unexpected issue",
             [EmptyObject EXCEPT !.message = original])

\* apiFetch<T>(endpoint, options) once fetch() has settled with o
apiFetch(o) ==
    IF o.rejects THEN Rejected(GenericError("Failed to fetch"))
    ELSE IF ~(o.status >= 200 /\ o.status <= 299)
    THEN LET errorData == IF o.parses THEN o.body ELSE NullData
             httpError == "HTTP error " \o ToString(o.status)
             errorMessage ==
                 IF ~o.parses THEN httpError
                 ELSE IF Truthy(errorData.message) THEN errorData.message
                 ELSE IF errorData.errors.has THEN Join(errorData.errors.items, ", ")
                 ELSE httpError
         IN  Rejected(ApiError(TRUE, o.status, errorMessage, errorData))
    ELSE IF o.status = 204 THEN Resolved(EmptyObject)
    ELSE IF o.parses THEN Resolved(o.body)
    ELSE Rejected(GenericError("Unexpected token"))

\* a login that takes every answered request for a success
login_TrustsStatus(o) == apiFetch(o)

\* login(username, password)
login(o) ==
    LET r == apiFetch(o)
    IN  IF ~r.resolved THEN r
        ELSE IF r.data.authenticated # "true"
        THEN Rejected(ApiError(FALSE, 0,
                               IF Truthy(r.data.message) THEN r.data.message
                               ELSE "Login failed due to unknown reasons.",
                               NullData))
        ELSE r

\* logout()
logout(o) == apiFetch(o)

\* getFeeds()
getFeeds(o) == apiFetch(o)

\* the value or the exception of checkAuth
AuthResult(threw, value, error) == [threw |-> threw, value |-> value, error |-> error]

\* an auth check that takes every failure for "not authenticated"
checkAuth_FalseOnAnyError(o) ==
    IF getFeeds(o).resolved THEN AuthResult(FALSE, TRUE, NoError)
    ELSE AuthResult(FALSE, FALSE, NoError)

\* checkAuth()
checkAuth(o) ==
    LET r == getFeeds(o)
    IN  IF r.resolved THEN AuthResult(FALSE, TRUE, NoError)
        ELSE IF r.error.hasStatus /\ r.error.status = 401
        THEN AuthResult(FALSE, FALSE, NoError)
        ELSE AuthResult(TRUE, FALSE, r.error)

\* storiesArray.sort((a, b) => dateB - dateA): stable, newest first
RECURSIVE InsertByDate(_, _)
InsertByDate(sorted, x) ==
    IF sorted = <<>> THEN <<x>>
    ELSE IF Head(sorted).story_date >= x.story_date
    THEN <<Head(sorted)>> \o InsertByDate(Tail(sorted), x)
    ELSE <<x>> \o sorted

RECURSIVE SortByDateDesc(_)
SortByDateDesc(xs) ==
    IF xs = <<>> THEN <<>>
    ELSE InsertByDate(SortByDateDesc(SubSeq(xs, 1, Len(xs) - 1)), xs[Len(xs)])

\* getStoriesForFeed(feedId): the sorted array, or the rejection
getStoriesForFeed(feedId, o) ==
    IF feedId = ""
    THEN [resolved |-> FALSE, stories |-> <<>>,
          error |-> ApiError(FALSE, 0, "Feed ID is required to fetch stories.", NullData)]
    ELSE LET r == apiFetch(o)
         IN  IF ~r.resolved THEN [resolved |-> FALSE, stories |-> <<>>, error |-> r.error]
             ELSE [resolved |-> TRUE, stories |-> SortByDateDesc(r.data.stories.items),
                   error |-> NoError]

\* ------------------------------------------------------------------------
\* Frontend: ui.ts
\* ------------------------------------------------------------------------
showLoginMessage(d, message, isError) ==
    [d EXCEPT !.loginMessage = message, !.loginMessageIsError = isError]

showFeedMessage(d, message, isError) ==
    [d EXCEPT !.feedMessage = message, !.feedMessageIsError = isError]

showStoryMessage(d, message) == [d EXCEPT !.storyMessage = message]

clearFeedDisplay(d) == [d EXCEPT !.feedList = <<>>, !.feedMessage = ""]

clearStoryDisplay(d) == [d EXCEPT !.storyList = <<>>, !.storyMessage = ""]

setLoginButtonState(d, disabled) == [d EXCEPT !.loginButtonDisabled = disabled]

showLoginView(d) ==
    [clearStoryDisplay(clearFeedDisplay(d)) EXCEPT !.view = "login-view", !.loginMessage = ""]

showFeedListView(d) ==
    clearStoryDisplay([d EXCEPT !.view = "feed-list-view", !.loginMessage = "",
                                !.loginButtonDisabled = FALSE])

showStoryListView(d) == [d EXCEPT !.view = "story-list-view", !.loginMessage = ""]

showStoryContentView(d) == [d EXCEPT !.view = "story-content-view", !.storyContent = ""]

renderFeedList(d, feeds) ==
    IF feeds = <<>>
    THEN showFeedMessage(clearFeedDisplay(d), "No feeds found. Add some on NewsBlur!", FALSE)
    ELSE showFeedMessage([clearFeedDisplay(d) EXCEPT !.feedList = feeds], "", FALSE)

renderStories(d, stories, feedTitle) ==
    LET listed == [d EXCEPT !.storyList = stories, !.storyListTitle = feedTitle]
    IN  IF stories = <<>>
        THEN showStoryMessage(listed, "No stories found for this feed.")
        ELSE showStoryMessage(listed, "")

renderStoryContent(d, story) == [d EXCEPT !.storyContent = story.id]

\* ------------------------------------------------------------------------
\* Frontend: app.ts
\* ------------------------------------------------------------------------
\* handlers that may be suspended at an await at the same time in the model
MaxPending == 2

\* a handler suspended at `await api.<api>(...)`; root is the handler the
\* event loop called
Frame(fn, root, api, feedId, feedTitle) ==
    [fn |-> fn, root |-> root, api |-> api, feedId |-> feedId, feedTitle |-> feedTitle]

\* the handler calls an API function and awaits it
Call(s, frame) ==
    [s EXCEPT !.pending = Append(@, frame),
              !.bootTrace = IF frame.root = "checkAuthAndLoadView"
                            THEN Append(@, frame.api) ELSE @]

\* error.data?.message || error.message || fallback
ErrorText(error, fallback) ==
    IF error.data.kind = "object" /\ Truthy(error.data.message) THEN error.data.message
    ELSE IF error.message # "" THEN error.message
    ELSE fallback

\* fetchAndDisplayFeeds() up to its await
fetchAndDisplayFeeds(s, root) ==
    Call([s EXCEPT !.isLoading = TRUE,
                   !.dom = clearFeedDisplay(
                               showFeedMessage(showFeedListView(@), "Loading feeds...", FALSE))],
         Frame("fetchAndDisplayFeeds", root, "getFeeds", "", ""))

\* fetchAndDisplayFeeds() from its await to its end
fetchAndDisplayFeedsResume(s, r) ==
    IF r.resolved
    THEN [s EXCEPT !.currentFeeds = r.data.feeds.items,
                   !.dom = showFeedMessage(renderFeedList(@, r.data.feeds.items), "", FALSE),
                   !.isLoading = FALSE]
    ELSE [s EXCEPT !.dom = showFeedMessage(clearFeedDisplay(@),
                                           ErrorText(r.error, "Failed to load feeds."), TRUE),
                   !.isLoading = FALSE]

\* checkAuthAndLoadView() up to its await
checkAuthAndLoadView(s) ==
    IF s.isLoading THEN s
    ELSE Call([s EXCEPT !.isLoading = TRUE],
              Frame("checkAuthAndLoadView", "checkAuthAndLoadView", "checkAuth", "", ""))

\* a startup that leaves the loading flag set when the auth check throws
checkAuthAndLoadViewResume_NoResetOnError(s, a) ==
    IF a.threw THEN [s EXCEPT !.dom = showLoginView(@)]
    ELSE IF a.value THEN fetchAndDisplayFeeds(s, "checkAuthAndLoadView")
    ELSE [s EXCEPT !.dom = showLoginView(@), !.isLoading = FALSE]

\* a startup that loads the feeds whatever the auth check says
checkAuthAndLoadViewResume_AlwaysLoads(s, a) ==
    fetchAndDisplayFeeds(s, "checkAuthAndLoadView")

\* checkAuthAndLoadView() from its await on
checkAuthAndLoadViewResume(s, a) ==
    IF a.threw THEN [s EXCEPT !.dom = showLoginView(@), !.isLoading = FALSE]
    ELSE IF a.value THEN fetchAndDisplayFeeds(s, "checkAuthAndLoadView")
    ELSE [s EXCEPT !.dom = showLoginView(@), !.isLoading = FALSE]

\* handleLoginSubmit() up to its await; credentials is what
\* ui.getLoginCredentials() returned
handleLoginSubmit(s, credentials) ==
    IF s.isLoading THEN s
    ELSE IF credentials = "null"
    THEN [s EXCEPT !.dom = showLoginMessage(@, "Username and password are required.", TRUE)]
    ELSE Call([s EXCEPT !.isLoading = TRUE,
                        !.dom = showLoginMessage(setLoginButtonState(@, TRUE),
                                                 "Logging in...", FALSE)],
              Frame("handleLoginSubmit", "handleLoginSubmit", "login", "", ""))

\* handleLoginSubmit() from its await on
handleLoginSubmitResume(s, r) ==
    IF r.resolved
    THEN fetchAndDisplayFeeds(
             [s EXCEPT !.dom = showLoginMessage(@, "Login successful!", FALSE)],
             "handleLoginSubmit")
    ELSE [s EXCEPT !.isLoading = FALSE,
                   !.dom = setLoginButtonState(
                               showLoginMessage(@, ErrorText(r.error, "Login failed."), TRUE),
                               FALSE)]

\* a logout that starts whatever else is going on
handleLogout_NoGuard(s) ==
    Call([s EXCEPT !.isLoading = TRUE], Frame("handleLogout", "handleLogout", "logout", "", ""))

\* handleLogout() up to its await
handleLogout(s) ==
    IF s.isLoading THEN s
    ELSE Call([s EXCEPT !.isLoading = TRUE],
              Frame("handleLogout", "handleLogout", "logout", "", ""))

\* a logout that stays where it is when the call fails
handleLogoutResume_OnlyOnSuccess(s, r) ==
    IF r.resolved THEN [s EXCEPT !.isLoading = FALSE, !.dom = showLoginView(@)]
    ELSE [s EXCEPT !.isLoading = FALSE]

\* handleLogout() from its await on: catch logs, finally does the rest
handleLogoutResume(s, r) == [s EXCEPT !.isLoading = FALSE, !.dom = showLoginView(@)]

\* handleFeedItemClick(feedId, feedTitle) up to its await
handleFeedItemClick(s, feedId, feedTitle) ==
    IF s.isLoading THEN s
    ELSE Call([s EXCEPT !.isLoading = TRUE,
                        !.currentStories = <<>>,
                        !.dom = showStoryMessage(showStoryListView(@), "Loading stories...")],
              Frame("handleFeedItemClick", "handleFeedItemClick", "getStoriesForFeed",
                    feedId, feedTitle))

\* handleFeedItemClick() from its await on
handleFeedItemClickResume(s, r, feedTitle) ==
    IF r.resolved
    THEN [s EXCEPT !.currentStories = r.stories,
                   !.dom = showStoryMessage(renderStories(@, r.stories, feedTitle), ""),
                   !.isLoading = FALSE]
    ELSE [s EXCEPT !.currentStories = <<>>,
                   !.dom = renderStories(
                               showStoryMessage(@, "Error loading stories: " \o r.error.message),
                               <<>>, feedTitle),
                   !.isLoading = FALSE]

\* the click listener handleFeedItemClick gives to ui.renderStories
StoryItemClick(s, clickedStory) ==
    IF s.isLoading THEN s
    ELSE LET found == {i \in 1..Len(s.currentStories) : s.currentStories[i].id = clickedStory.id}
         IN  IF found # {}
             THEN LET storyData == s.currentStories[CHOOSE i \in found : \A j \in found : i <= j]
                  IN  [s EXCEPT !.dom = renderStoryContent(showStoryContentView(@), storyData)]
             ELSE [s EXCEPT !.dom = showStoryMessage(@, "Could not display story.")]

\* handleBackToStoryListClick()
handleBackToStoryListClick(s) ==
    IF s.isLoading THEN s ELSE [s EXCEPT !.dom = showStoryListView(@)]

\* the click listener of #back-to-feeds-button
BackToFeedsClick(s) ==
    IF s.isLoading THEN s ELSE [s EXCEPT !.dom = showFeedListView(@)]

\* ------------------------------------------------------------------------
\* Frontend: the page in a browser
\* ------------------------------------------------------------------------
\* the feeds and stories the API answers with
Feeds == <<[id |-> "1", feed_title |-> "Feed A"], [id |-> "2", feed_title |-> Absent]>>
Stories == <<[id |-> "s1", story_date |-> 1], [id |-> "s2", story_date |-> 2]>>

\* answers every endpoint can give: the network fails, the proxy's 401
\* (plain text) and a JSON 401, a 500 page, the proxy's 502
CommonFailures ==
    {FetchRejected,
     FetchResponse(401, FALSE, NullData),
     FetchResponse(401, TRUE, [EmptyObject EXCEPT !.message = "Unauthorized"]),
     FetchResponse(500, FALSE, NullData),
     FetchResponse(502, TRUE, [EmptyObject EXCEPT !.message = "Proxy request failed"])}

FeedsOutcomes ==
    CommonFailures \cup
    {FetchResponse(200, TRUE, [EmptyObject EXCEPT !.feeds = List(Feeds)]),
     FetchResponse(200, TRUE, EmptyObject),
     FetchResponse(200, FALSE, NullData),
     FetchResponse(204, FALSE, NullData)}

LoginOutcomes ==
    CommonFailures \cup
    {FetchResponse(200, TRUE, [EmptyObject EXCEPT !.authenticated = "true",
                                                  !.message = "Login successful (proxy)"]),
     FetchResponse(200, TRUE, [EmptyObject EXCEPT !.authenticated = "false",
                                                  !.errors = List(<<"Invalid credentials.">>)]),
     FetchResponse(200, TRUE, [EmptyObject EXCEPT !.authenticated = "false",
                                                  !.message = "Login failed"]),
     FetchResponse(401, TRUE, [EmptyObject EXCEPT !.authenticated = "false",
                                                  !.errors = List(<<"Invalid credentials.">>)]),
     FetchResponse(204, FALSE, NullData)}

LogoutOutcomes ==
    CommonFailures \cup
    {FetchResponse(200, TRUE, [EmptyObject EXCEPT !.message = "Logout successful"])}

StoriesOutcomes ==
    CommonFailures \cup
    {FetchResponse(200, TRUE, [EmptyObject EXCEPT !.stories = List(Stories)]),
     FetchResponse(200, TRUE, EmptyObject)}

\* the answers the fetch of an API function can settle with
OutcomesOf(api) ==
    CASE api = "login" -> LoginOutcomes
      [] api = "logout" -> LogoutOutcomes
      [] api = "getStoriesForFeed" -> StoriesOutcomes
      [] OTHER -> FeedsOutcomes

\* module state of app.ts, the page and the suspended handlers, as one value
AppState ==
    [isLoading |-> isLoading, currentFeeds |-> currentFeeds,
     currentStories |-> currentStories, dom |-> dom, pending |-> pending,
     bootTrace |-> bootTrace]

\* the API function a step began to await, if any
Started(r, before) ==
    IF Len(r.pending) > before THEN r.pending[Len(r.pending)].api ELSE "none"

\* the step leaves the frontend in state r, having handled event ev
Apply(r, ev) ==
    /\ Len(r.pending) <= MaxPending
    /\ isLoading' = r.isLoading
    /\ currentFeeds' = r.currentFeeds
    /\ currentStories' = r.currentStories
    /\ dom' = r.dom
    /\ pending' = r.pending
    /\ bootTrace' = r.bootTrace
    /\ lastEvent' = ev
    /\ UNCHANGED <<workerVars, policy>>

\* a DOM event that called handler fn and left state r
UserEvent(name, fn, r) ==
    [NoEvent EXCEPT !.name = name, !.fn = fn, !.root = fn, !.loading = isLoading,
                    !.started = Started(r, Len(pending))]

\* initializeApp() has run: handlers registered, checkAuthAndLoadView() called
InitFrontend ==
    /\ WorkerAtRest
    /\ workerUrl \in {u \in WorkerUrls : u.host = "localhost"}
    /\ policy = NoPolicy
    /\ LET r == checkAuthAndLoadView([isLoading |-> FALSE, currentFeeds |-> <<>>,
                                      currentStories |-> <<>>, dom |-> InitialDom,
                                      pending |-> <<>>, bootTrace |-> <<>>])
       IN  /\ isLoading = r.isLoading
           /\ currentFeeds = r.currentFeeds
           /\ currentStories = r.currentStories
           /\ dom = r.dom
           /\ pending = r.pending
           /\ bootTrace = r.bootTrace
           /\ lastEvent = [NoEvent EXCEPT !.name = "load", !.fn = "initializeApp",
                                          !.root = "checkAuthAndLoadView",
                                          !.started = Started(r, 0)]

\* submit of #login-form
SubmitLoginForm(credentials) ==
    /\ lastEvent.name # "none"
    /\ LET r == handleLoginSubmit(AppState, credentials)
       IN  Apply(r, UserEvent("submit", "handleLoginSubmit", r))

\* click on #logout-button
ClickLogout ==
    /\ lastEvent.name # "none"
    /\ LET r == handleLogout(AppState)
       IN  Apply(r, UserEvent("click", "handleLogout", r))

\* click on an item of #feed-list
ClickFeedItem(i) ==
    /\ i \in 1..Len(dom.feedList)
    /\ LET feed == dom.feedList[i]
           r    == handleFeedItemClick(AppState, feed.id,
                                       IF Truthy(feed.feed_title) THEN feed.feed_title
                                       ELSE "Untitled Feed")
       IN  Apply(r, UserEvent("click", "handleFeedItemClick", r))

\* click on an item of #story-list
ClickStoryItem(i) ==
    /\ i \in 1..Len(dom.storyList)
    /\ LET r == StoryItemClick(AppState, dom.storyList[i])
       IN  Apply(r, UserEvent("click", "StoryItemClick", r))

\* click on #back-to-feeds-button
ClickBackToFeeds ==
    /\ lastEvent.name # "none"
    /\ LET r == BackToFeedsClick(AppState)
       IN  Apply(r, UserEvent("click", "BackToFeedsClick", r))

\* click on #back-to-story-list-button
ClickBackToStoryList ==
    /\ lastEvent.name # "none"
    /\ LET r == handleBackToStoryListClick(AppState)
       IN  Apply(r, UserEvent("click", "handleBackToStoryListClick", r))

\* the handler suspended in frame goes on with the settled call
Resume(s, frame, o) ==
    CASE frame.fn = "checkAuthAndLoadView" -> checkAuthAndLoadViewResume(s, checkAuth(o))
      [] frame.fn = "fetchAndDisplayFeeds" -> fetchAndDisplayFeedsResume(s, getFeeds(o))
      [] frame.fn = "handleLoginSubmit" -> handleLoginSubmitResume(s, login(o))
      [] frame.fn = "handleLogout" -> handleLogoutResume(s, logout(o))
      [] frame.fn = "handleFeedItemClick" ->
             handleFeedItemClickResume(s, getStoriesForFeed(frame.feedId, o), frame.feedTitle)

\* how the awaited call settled, as the handler saw it
ResultOf(frame, o) ==
    CASE frame.api = "checkAuth" ->
             LET a == checkAuth(o)
             IN  IF a.threw THEN "threw" ELSE IF a.value THEN "true" ELSE "false"
      [] frame.api = "login" -> IF login(o).resolved THEN "resolved" ELSE "rejected"
      [] frame.api = "logout" -> IF logout(o).resolved THEN "resolved" ELSE "rejected"
      [] frame.api = "getStoriesForFeed" ->
             IF getStoriesForFeed(frame.feedId, o).resolved THEN "resolved" ELSE "rejected"
      [] OTHER -> IF getFeeds(o).resolved THEN "resolved" ELSE "rejected"

\* the error the awaited call threw into the handler
ErrorOf(frame, o) ==
    CASE frame.api = "checkAuth" -> checkAuth(o).error
      [] frame.api = "login" -> login(o).error
      [] frame.api = "getStoriesForFeed" -> getStoriesForFeed(frame.feedId, o).error
      [] OTHER -> apiFetch(o).error

\* the fetch of a suspended handler settles and the handler runs on to its
\* next await or to its end
ApiCallSettles(i, o) ==
    /\ i \in 1..Len(pending)
    /\ o \in OutcomesOf(pending[i].api)
    /\ LET frame == pending[i]
           rest  == [j \in 1..(Len(pending) - 1) |-> IF j < i THEN pending[j] ELSE pending[j + 1]]
           r     == Resume([AppState EXCEPT !.pending = rest], frame, o)
       IN  Apply(r, [NoEvent EXCEPT !.name = "settled", !.fn = frame.fn, !.root = frame.root,
                                    !.loading = isLoading, !.settled = frame.api,
                                    !.outcome = o, !.result = ResultOf(frame, o),
                                    !.error = ErrorOf(frame, o),
                                    !.started = Started(r, Len(rest))])

NextFrontend ==
    \/ \E c \in {"null", "filled"} : SubmitLoginForm(c)
    \/ ClickLogout
    \/ \E i \in 1..2 : ClickFeedItem(i)
    \/ \E i \in 1..2 : ClickStoryItem(i)
    \/ ClickBackToFeeds
    \/ ClickBackToStoryList
    \/ \E i \in 1..MaxPending : \E o \in FeedsOutcomes \cup LoginOutcomes \cup LogoutOutcomes
                                         \cup StoriesOutcomes : ApiCallSettles(i, o)

SpecFrontend == InitFrontend /\ [][NextFrontend]_vars

\* ------------------------------------------------------------------------
\* Properties
\* ------------------------------------------------------------------------
Answered == out.status # 0

\* the response tells the browser to drop proxy_session_id
ClearsSessionCookie(x) ==
    \E c \in x.cookies :
        c.name = PROXY_SESSION_COOKIE_NAME /\ c.value = "" /\ c.maxAge = 0

IsLogoutRequest(req) == req.method = "POST" /\ req.path = "/proxy/api/logout"
IsLoginRequest(req) == req.method = "POST" /\ req.path = "/proxy/api/login"

LooksLikeCredential(v) == StartsWith(v, "newsblur_sessionid=")

\* C1: a forwarded request whose store read succeeds and finds no entry is
\* answered 401, with a Set-Cookie that clears proxy_session_id, and without
\* an upstream call.
C1_StoreMissClearsCookie ==
    (Answered /\ out.handler = "proxy" /\ out.kv = "miss")
        => /\ out.status = 401
           /\ ClearsSessionCookie(out)
           /\ ~out.upstream.called

\* C2 as stated: once a forwarded request for S was answered after upstream
\* said 401 or 403, every later request presenting S gets 401, however the
\* detached delete interleaves and whatever upstream answers (stated for the
\* requests whose store read and upstream fetch do not fail).
C2_LaterRequestsAlways401 ==
    (Answered /\ out.handler = "proxy" /\ out.hist.late
        /\ out.kv # "throw" /\ ~(out.upstream.called /\ out.upstream.status = 0))
        => out.status = 401

\* C2 as amended: upstream 401/403 is answered 401 and schedules the delete
\* of S; once that delete has taken effect S never resolves again and every
\* request presenting S whose store read succeeds after it gets 401 without
\* being forwarded.
C2_After401DeleteTakesEffect ==
    /\ \A k \in purged : store[k] = Absent
    /\ (Answered /\ out.handler = "proxy" /\ out.upstream.status \in {401, 403})
           => /\ out.status = 401
              /\ Del(out.req.cookie) \in out.scheduled
              /\ Del(out.req.cookie) \in tasks
              /\ out.req.cookie \in rejected
    /\ (Answered /\ out.handler = "proxy" /\ out.hist.afterPurge /\ out.kv # "throw")
           => /\ out.status = 401
              /\ out.kv = "miss"
              /\ ~out.upstream.called

\* a request for an invalidated id, read after the delete took effect, got 401
C2_Witness ==
    /\ Answered /\ out.handler = "proxy"
    /\ out.hist.late /\ out.hist.afterPurge
    /\ out.req.cookie \in rejected
    /\ out.kv = "miss" /\ out.status = 401

\* C3: no response sets a cookie with SameSite=None and without Secure.
C3_SameSiteNoneIsSecure ==
    Answered => \A c \in out.cookies : c.sameSite = "None" => c.secure

\* C4: POST /proxy/api/logout is always answered 200 with the logout
\* acknowledgment, with or without a cookie, whatever the store holds.
C4_LogoutAlwaysSucceeds ==
    (Answered /\ IsLogoutRequest(out.req))
        => /\ out.status = 200
           /\ out.body = "{\"message\":\"Logged out successfully.\"}"

\* C5: POST /proxy/api/logout schedules the delete of the presented id and
\* its response clears the cookie with path '/', HttpOnly, the resolved
\* Secure flag and SameSite=Lax.
C5_LogoutDeletesAndClears ==
    (Answered /\ IsLogoutRequest(out.req))
        => /\ Truthy(out.req.cookie) => Del(out.req.cookie) \in out.scheduled
           /\ DeleteCookie("/", TRUE, getSecureFlag(workerUrl), "Lax") \in out.cookies

AllowListed == {"content-type", "content-length", "date", "etag"}

\* C6: a streamed upstream response reaches the client with no upstream
\* header outside {content-type, content-length, date, etag}.
C6_HeaderAllowList ==
    (Answered /\ out.handler = "proxy" /\ out.upstream.called
        /\ out.upstream.status \notin {0, 401, 403})
        => /\ \A h \in out.headers : h.from = "upstream" => h.name \in AllowListed
           /\ \A h \in out.headers :
                  h.name \in AllowListed \/ StartsWith(h.name, "access-control-") \/ h.name = "vary"
           /\ \A u \in out.upstream.headers :
                  Lower(u[1]) \notin AllowListed =>
                      ~\E h \in out.headers : h.value = u[2]

\* upstream sent Set-Cookie, Location and Server; only its ETag and
\* Content-Type came through
C6_Witness ==
    /\ Answered /\ out.handler = "proxy" /\ out.status = 200
    /\ out.upstream.headers = PageHeaders
    /\ {h.name : h \in {g \in out.headers : g.from = "upstream"}} = {"content-type", "etag"}

\* C7: the cookie a successful login sets carries the minted session id,
\* and no response sets a cookie whose value is an upstream credential.
C7_CookieIsOpaque ==
    Answered =>
        /\ \A c \in out.cookies :
              /\ ~LooksLikeCredential(c.value)
              /\ \A k \in SessionIds : c.value # issued[k]
        /\ \A h \in out.headers : h.name # "set-cookie"
        /\ \A t \in out.scheduled : t.op = "put" =>
              /\ t.key \in SessionIds
              /\ t.key # t.value
              /\ {c.value : c \in out.cookies} = {t.key}

\* a successful login: credential stored under the id, id in the cookie
C7_Witness ==
    /\ Answered /\ out.handler = "login" /\ out.status = 200
    /\ \E t \in out.scheduled, c \in out.cookies :
          t.op = "put" /\ LooksLikeCredential(t.value) /\ c.value = t.key

\* C8: every login mints an id never used before and schedules exactly one
\* put under it; no key is written twice, so an id always resolves to the
\* credential captured by the login that minted it, or to nothing.
C8_OnePutPerSession ==
    /\ \A k \in SessionIds :
          /\ putCount[k] <= 1
          /\ putCount[k] = 1 <=> issued[k] # Absent
          /\ store[k] \in {Absent, issued[k]}
    /\ \A t \in tasks : t.op = "put" => t.value = issued[t.key]
    /\ \A j, k \in SessionIds :
          (j # k /\ issued[j] # Absent /\ issued[k] # Absent) => store[j] # issued[k]
    /\ (Answered /\ out.handler = "login" /\ out.status = 200 /\ out.cookies # {}
            /\ ~ClearsSessionCookie(out))
           => Cardinality({t \in out.scheduled : t.op = "put"}) = 1

\* two logins done and their puts applied: two ids, each resolving to its
\* own credential
C8_Witness ==
    /\ \A k \in SessionIds : issued[k] # Absent /\ store[k] = issued[k]
    /\ \A k \in SessionIds : putCount[k] = 1
    /\ \E j, k \in SessionIds : issued[j] # issued[k]

\* C9: a forwarded request is sent upstream with the credential captured
\* at the login that issued its cookie, a live entry is never answered as a
\* miss, and the upstream answer goes back to the client.
C9_ForwardUsesCapturedCredential ==
    /\ \A i \in Slots :
          (inflight[i].handler = "proxy" /\ inflight[i].pc = "fetch")
              => /\ Truthy(inflight[i].cred)
                 /\ inflight[i].cred = issued[inflight[i].req.cookie]
    /\ (Answered /\ out.handler = "proxy" /\ out.upstream.called)
           => /\ out.upstream.cookie = issued[out.req.cookie]
              /\ LooksLikeCredential(out.upstream.cookie)
              /\ out.upstream.method = out.req.method
              /\ out.upstream.status \notin {0, 401, 403}
                     => out.status = out.upstream.status /\ out.body = out.upstream.body
    /\ (Answered /\ out.handler = "proxy" /\ out.kv = "miss")
           => store[out.req.cookie] = Absent

\* login, put taken effect, then a GET with the issued cookie answered 200
C9_Witness ==
    /\ Answered /\ out.handler = "proxy" /\ out.req.method = "GET"
    /\ out.status = 200 /\ out.body = "{}"
    /\ store[out.req.cookie] = out.upstream.cookie
    /\ out.upstream.cookie = "newsblur_sessionid=u1"

\* username or password missing, empty or not a string, or no readable body
InvalidLoginBody(body) ==
    \/ ~body.parses
    \/ body.username.type # "string" \/ body.password.type # "string"
    \/ body.username.value = "" \/ body.password.value = ""

\* C10: a login whose body lacks username or password, or has one empty or
\* not a string, is answered 400 by the login handler: no upstream call, no
\* store write, no cookie; it never gets as far as the upstream fetch.
C10_InvalidLoginIs400 ==
    /\ (Answered /\ IsLoginRequest(out.req) /\ InvalidLoginBody(out.req.body)
            /\ out.handler # "cors")
           => /\ out.handler = "login"
              /\ out.status = 400
              /\ ~out.upstream.called
              /\ out.scheduled = {}
              /\ out.cookies = {}
    /\ \A i \in Slots :
          inflight[i].handler = "login" => ~InvalidLoginBody(inflight[i].req.body)

\* a login with an empty username was answered 400
C10_Witness ==
    /\ Answered /\ out.handler = "login" /\ out.status = 400
    /\ out.req.body.parses /\ out.req.body.username = StrField("")
    /\ ~out.upstream.called /\ tasks = {}

\* the exchange is a login that got an answer from upstream
LoginAnsweredByUpstream ==
    /\ Answered /\ out.handler = "login"
    /\ out.upstream.called /\ out.upstream.status # 0

\* upstream's answer has a 2xx-3xx status and a Set-Cookie header with a
\* non-empty newsblur_sessionid
UpstreamGaveCredential(up) ==
    /\ up.status >= 200 /\ up.status < 400
    /\ \E h \in up.headers :
          /\ h[1] = "Set-Cookie"
          /\ MatchSessionId(h[2], 1) # ""

SchedulesPut(x) == \E t \in x.scheduled : t.op = "put"

SetsSessionCookie(x) == \E c \in x.cookies : c.value # ""

\* C11: a login mints a session (put scheduled under a new id, cookie set
\* to that id, success body) only if upstream answered 2xx-3xx with a
\* newsblur_sessionid in Set-Cookie, and always does so in that case when
\* the store binding is usable; otherwise nothing is scheduled or issued.
C11_MintIffCredential ==
    /\ (Answered /\ out.handler = "login") =>
          /\ SchedulesPut(out) =>
                /\ LoginAnsweredByUpstream
                /\ UpstreamGaveCredential(out.upstream)
                /\ out.status = 200 /\ out.body = LoginSuccessBody
                /\ \E t \in out.scheduled :
                      /\ out.scheduled = {t}
                      /\ t.value = issued[t.key]
                      /\ {c.value : c \in out.cookies} = {t.key}
          /\ ~SchedulesPut(out) =>
                /\ out.scheduled = {}
                /\ ~SetsSessionCookie(out)
                /\ out.body # LoginSuccessBody
          /\ (LoginAnsweredByUpstream /\ UpstreamGaveCredential(out.upstream)
                 /\ env.SESSIONS # Absent) => SchedulesPut(out)
          /\ (LoginAnsweredByUpstream /\ ~UpstreamGaveCredential(out.upstream))
                 => ~SchedulesPut(out)
    /\ \A k \in SessionIds : issued[k] # Absent => putCount[k] > 0

\* a session minted from a 302 whose Set-Cookie lists two cookies
C11_Witness ==
    /\ LoginAnsweredByUpstream /\ out.upstream.status = 302
    /\ SchedulesPut(out) /\ SetsSessionCookie(out)
    /\ out.body = LoginSuccessBody

\* C12: when upstream login yields no credential, the response carries
\* upstream's status and its JSON body, clears proxy_session_id and sets no
\* session cookie.
C12_FailureRelaysUpstream ==
    (LoginAnsweredByUpstream /\ ~UpstreamGaveCredential(out.upstream)) =>
        /\ out.status = out.upstream.status
        /\ IsJson(out.upstream.body) => out.body = out.upstream.body
        /\ ClearsSessionCookie(out)
        /\ ~SetsSessionCookie(out)

\* upstream said the credentials are wrong
UpstreamRejectedCredentials(up) ==
    /\ up.called /\ up.body = "{\"authenticated\":false}"
    /\ ~UpstreamGaveCredential(up)

\* C13 as stated: a login upstream rejects for bad credentials is answered
\* 401 with the session cookie cleared.
C13_RejectedLoginIs401 ==
    (LoginAnsweredByUpstream /\ UpstreamRejectedCredentials(out.upstream)) =>
        /\ out.status = 401
        /\ ClearsSessionCookie(out)

\* C13 as amended: a login upstream rejects is answered with upstream's own
\* status and body (200 when upstream says 200 with authenticated:false,
\* 401 only when upstream says 401), with the session cookie cleared and
\* nothing stored.
C13_RejectedLoginRelaysStatus ==
    (LoginAnsweredByUpstream /\ UpstreamRejectedCredentials(out.upstream)) =>
        /\ out.status = out.upstream.status
        /\ out.status = 401 <=> out.upstream.status = 401
        /\ out.body = out.upstream.body
        /\ ClearsSessionCookie(out)
        /\ ~SetsSessionCookie(out)
        /\ out.scheduled = {}

\* upstream answered 200 with authenticated:false; the client got that 200
C13_Witness ==
    /\ LoginAnsweredByUpstream /\ UpstreamRejectedCredentials(out.upstream)
    /\ out.upstream.status = 200 /\ out.status = 200
    /\ ClearsSessionCookie(out)

\* C14: the forwarding handler answers a request without proxy_session_id
\* with 401, or with an empty 404 when it is a GET of a path ending in
\* favicon.ico, reading no store and calling no upstream; with a cookie
\* the store is always read and the 404 is never given.
C14_NoCookieIs401Or404 ==
    (Answered /\ out.handler = "proxy") =>
        /\ ~Truthy(out.req.cookie) =>
              /\ out.kv = "none" /\ ~out.hist.readFailed
              /\ ~out.upstream.called
              /\ out.scheduled = {} /\ out.cookies = {}
              /\ IF out.req.method = "GET" /\ EndsWith(out.req.path, "favicon.ico")
                 THEN out.status = 404 /\ out.body = ""
                 ELSE out.status = 401
        /\ Truthy(out.req.cookie) =>
              /\ out.kv # "none"
              /\ out.status = 404 => out.upstream.status = 404

\* a GET of /proxy/favicon.ico without a cookie got the 404
C14_Witness ==
    /\ Answered /\ out.handler = "proxy" /\ out.req.cookie = Absent
    /\ out.req.path = "/proxy/favicon.ico" /\ out.status = 404
    /\ out.kv = "none"

\* C15: when the store read of a forwarded request throws, the answer is
\* 500 with no cookie cleared, no delete scheduled and no upstream call; a
\* read that succeeds and finds nothing is answered 401 instead.
C15_ReadFailureIs500 ==
    (Answered /\ out.handler = "proxy" /\ Truthy(out.req.cookie)) =>
        /\ out.hist.readFailed =>
              /\ out.status = 500
              /\ out.cookies = {} /\ ~ClearsSessionCookie(out)
              /\ out.scheduled = {}
              /\ ~out.upstream.called
        /\ (~out.hist.readFailed /\ ~out.upstream.called) =>
              /\ out.status = 401
              /\ store[out.req.cookie] = Absent

\* the read of a live session failed while the store binding exists
C15_Witness ==
    /\ Answered /\ out.handler = "proxy" /\ out.hist.readFailed
    /\ env.SESSIONS # Absent
    /\ Truthy(store[out.req.cookie])
    /\ out.status = 500

\* C16 as stated: when the put of a new session fails, the login was
\* answered 500 and not with the success acknowledgment.
C16_FailedPutIs500 ==
    \A k \in lostPuts : k \notin acked

\* C16 as amended: when handing over the put throws (store binding
\* missing), the login is answered 500 with no cookie and nothing stored;
\* the put of an acknowledged login is detached, so when it rejects later
\* the login has already been answered with success and the id resolves to
\* nothing.
C16_PutThrowIs500 ==
    /\ (LoginAnsweredByUpstream /\ UpstreamGaveCredential(out.upstream)
           /\ env.SESSIONS = Absent) =>
          /\ out.status = 500
          /\ out.body # LoginSuccessBody
          /\ out.cookies = {}
          /\ out.scheduled = {}
    /\ (Answered /\ out.handler = "login" /\ out.status = 500 /\ out.upstream.status # 500)
           => env.SESSIONS = Absent
    /\ \A k \in lostPuts : k \in acked /\ store[k] = Absent
    /\ env.SESSIONS = Absent => (acked = {} /\ tasks = {})

\* upstream accepted the login, the store binding is missing: 500
C16_Witness ==
    /\ LoginAnsweredByUpstream /\ UpstreamGaveCredential(out.upstream)
    /\ env.SESSIONS = Absent
    /\ out.status = 500 /\ out.kv = "putThrow"

\* C17: upstream 401 or 403 on a forwarded request schedules the delete of
\* the presented id, clears proxy_session_id and is answered 401 without
\* upstream's body.
C17_UpstreamAuthErrorClears ==
    (Answered /\ out.handler = "proxy" /\ out.upstream.status \in {401, 403}) =>
        /\ Del(out.req.cookie) \in out.scheduled
        /\ ClearsSessionCookie(out)
        /\ out.status = 401
        /\ out.body # out.upstream.body

\* C18: any upstream status other than 401 and 403 is returned unchanged,
\* with no delete scheduled and no cookie cleared.
C18_OtherStatusPassesThrough ==
    (Answered /\ out.handler = "proxy" /\ out.upstream.called
        /\ out.upstream.status \notin {0, 401, 403}) =>
        /\ out.status = out.upstream.status
        /\ out.scheduled = {}
        /\ out.cookies = {}
        /\ Del(out.req.cookie) \notin tasks \/ out.req.cookie \in rejected

\* upstream answered 302 and the client got the 302
C18_Witness ==
    /\ Answered /\ out.handler = "proxy"
    /\ out.upstream.status = 302 /\ out.status = 302
    /\ out.req.cookie \notin rejected
    /\ tasks = {}

\* the step completes a forwarded request whose upstream fetch rejected
UpstreamFetchFailed(x) ==
    /\ x.status # 0 /\ x.handler = "proxy"
    /\ x.upstream.called /\ x.upstream.status = 0

\* C19: a forwarded request whose upstream fetch rejects is answered 502,
\* and the step leaves the session alone: no delete scheduled, no cookie
\* cleared, store and pending tasks unchanged.
C19_NetworkErrorIs502 ==
    [][(out' # out /\ UpstreamFetchFailed(out')) =>
          /\ out'.status = 502
          /\ out'.scheduled = {}
          /\ out'.cookies = {}
          /\ store' = store
          /\ tasks' = tasks
          /\ rejected' = rejected]_vars

\* a 502 for a session that still resolves to its credential
C19_Witness ==
    /\ UpstreamFetchFailed(out) /\ out.status = 502
    /\ Truthy(store[out.req.cookie])
    /\ store[out.req.cookie] = out.upstream.cookie
    /\ tasks = {}

\* C20: a login whose upstream fetch rejects is answered 502, with no put
\* scheduled and no cookie set.
C20_LoginNetworkErrorIs502 ==
    (Answered /\ out.handler = "login" /\ out.upstream.called /\ out.upstream.status = 0) =>
        /\ out.status = 502
        /\ out.scheduled = {}
        /\ out.cookies = {}
        /\ out.body # LoginSuccessBody

\* the login fetch rejected and the client got a 502
C20_Witness ==
    /\ Answered /\ out.handler = "login"
    /\ out.upstream.called /\ out.upstream.status = 0
    /\ out.status = 502 /\ tasks = {} /\ acked = {}

\* the request has no Origin header and the deployment no FRONTEND_URL
NoResolvableOrigin(req) == ~Truthy(req.origin) /\ ~Truthy(env.FRONTEND_URL)

\* C21: a request under /proxy/* without an Origin header, while
\* FRONTEND_URL is not configured, is answered 500 by the CORS middleware:
\* no handler runs, so no store read, write or delete and no upstream call.
C21_NoOriginIs500 ==
    /\ (Answered /\ NoResolvableOrigin(out.req)) =>
          /\ out.status = 500
          /\ out.handler = "cors"
          /\ out.kv = "none" /\ ~out.hist.readFailed
          /\ ~out.upstream.called
          /\ out.scheduled = {}
          /\ out.cookies = {}
    /\ \A i \in Slots : inflight[i] # Idle => ~NoResolvableOrigin(inflight[i].req)

\* a well-formed login without Origin, FRONTEND_URL not set: 500
C21_Witness ==
    /\ Answered /\ IsLoginRequest(out.req) /\ out.req.body = ValidLoginBody
    /\ out.req.origin = Absent /\ env.FRONTEND_URL = Absent
    /\ out.status = 500

\* C22: an OPTIONS request under /proxy/* with a resolvable origin is
\* answered 204 without a body, whether or not it has a cookie, with no
\* store or upstream interaction.
C22_PreflightIs204 ==
    /\ (Answered /\ out.req.method = "OPTIONS" /\ ~NoResolvableOrigin(out.req)) =>
          /\ out.status = 204
          /\ out.body = ""
          /\ out.kv = "none" /\ ~out.hist.readFailed
          /\ ~out.upstream.called
          /\ out.scheduled = {}
          /\ out.cookies = {}
    /\ \A i \in Slots : inflight[i] # Idle => inflight[i].req.method # "OPTIONS"

\* the put of session id k is still pending
PutPending(k) == \E t \in tasks : t.op = "put" /\ t.key = k

\* C23: the login is answered while its put is still pending; a forwarded
\* request whose store read comes before the put took effect is answered
\* 401 and not forwarded; a store read that succeeds once the entry is
\* there leads to the upstream fetch with the stored credential.
C23_LoginDoesNotWaitForPut ==
    /\ [](\A t \in (IF Answered /\ out.handler = "login" THEN out.scheduled ELSE {}) :
             t \in tasks /\ store[t.key] = Absent)
    /\ []((Answered /\ out.handler = "proxy" /\ Truthy(out.req.cookie)
              /\ ~out.hist.readFailed /\ PutPending(out.req.cookie))
             => /\ out.status = 401
                /\ out.kv = "miss"
                /\ ~out.upstream.called)
    /\ [][\A i \in Slots :
             (/\ inflight[i].pc = "kvget"
              /\ inflight'[i] # inflight[i]
              /\ Truthy(store[inflight[i].req.cookie])
              /\ ~(out'.status # 0 /\ out'.hist.readFailed))
             => /\ inflight'[i].pc = "fetch"
                /\ inflight'[i].cred = store[inflight[i].req.cookie]
                /\ inflight'[i].cred = issued[inflight[i].req.cookie]
                /\ out' = NoResponse]_vars

\* the id of an acknowledged login got 401 while its put was pending
C23_Witness ==
    /\ Answered /\ out.handler = "proxy"
    /\ out.req.cookie \in acked
    /\ Put(out.req.cookie, issued[out.req.cookie]) \in tasks
    /\ out.status = 401 /\ out.kv = "miss"

\* C24: when the put of an acknowledged login failed, a forwarded request
\* presenting that id gets 401 with the cookie cleared and is not forwarded.
C24_LostPutIsMissAndCleared ==
    (Answered /\ out.handler = "proxy" /\ out.req.cookie \in lostPuts
        /\ ~out.hist.readFailed) =>
        /\ out.status = 401
        /\ ClearsSessionCookie(out)
        /\ ~out.upstream.called

\* C25: the forwarding handler calls upstream only after the store read of
\* that same request returned a credential, and sends exactly that value
\* as Cookie; a cookie whose id the store does not resolve causes no call.
C25_ForwardOnlyAfterStoreHit ==
    /\ [](\A i \in Slots :
             (inflight[i].handler = "proxy" /\ inflight[i].pc = "fetch")
                 => Truthy(inflight[i].cred) /\ inflight[i].req.cookie \in acked)
    /\ []((Answered /\ out.handler = "proxy" /\ out.upstream.called)
             => /\ out.kv = "hit" /\ ~out.hist.readFailed
                /\ Truthy(out.upstream.cookie)
                /\ out.upstream.cookie = issued[out.req.cookie]
                /\ out.req.cookie \in acked)
    /\ [][\A i \in Slots :
             (/\ inflight'[i] # inflight[i]
              /\ inflight'[i].handler = "proxy"
              /\ inflight'[i].pc = "fetch")
             => /\ inflight[i].pc = "kvget"
                /\ inflight[i].req = inflight'[i].req
                /\ Truthy(store[inflight[i].req.cookie])
                /\ inflight'[i].cred = store[inflight[i].req.cookie]]_vars

\* a POST under /proxy/* forwarded after its id resolved
C25_Witness ==
    /\ Answered /\ out.handler = "proxy" /\ out.req.method = "POST"
    /\ out.upstream.called /\ out.kv = "hit"
    /\ out.upstream.cookie = store[out.req.cookie]

PendingPuts(ts) == {t \in ts : t.op = "put"}

\* C26: the only puts are the ones scheduled by acknowledged logins, one
\* per id, with a 24-hour TTL; a forwarded request schedules no put and its
\* completion leaves the store as it was.
C26_ForwardNeverWrites ==
    /\ [](\A t \in PendingPuts(tasks) :
             t.ttl = 86400 /\ t.key \in acked /\ putCount[t.key] = 1)
    /\ [](\A k \in SessionIds : putCount[k] <= 1 /\ (putCount[k] = 1 <=> k \in acked))
    /\ []((Answered /\ out.handler = "proxy") => PendingPuts(out.scheduled) = {})
    /\ [][(out' # out /\ out'.status # 0 /\ out'.handler = "proxy")
             => /\ store' = store
                /\ putCount' = putCount
                /\ PendingPuts(tasks') = PendingPuts(tasks)]_vars

\* a forwarded request answered 200 for a session stored by its one put
C26_Witness ==
    /\ Answered /\ out.handler = "proxy" /\ out.status = 200
    /\ out.upstream.headers = ApiHeaders
    /\ putCount[out.req.cookie] = 1
    /\ store[out.req.cookie] = issued[out.req.cookie]
    /\ tasks = {}

\* C27: a request fetches upstream at most once: a handler waiting for its
\* fetch has issued exactly one, and when that fetch settles (response or
\* network error) the request is answered.
C27_OneFetchPerRequest ==
    /\ [](\A i \in Slots :
             inflight[i] # Idle =>
                 inflight[i].fetches = (IF inflight[i].pc = "fetch" THEN 1 ELSE 0))
    /\ [][\A i \in Slots :
             (inflight[i].pc = "fetch" /\ inflight'[i] # inflight[i])
             => /\ inflight'[i] = Idle
                /\ out'.status # 0
                /\ out'.req = inflight[i].req
                /\ out'.upstream.called]_vars

\* upstream answered 500 to a forwarded request; it was answered, not retried
C27_Witness ==
    /\ Answered /\ out.handler = "proxy"
    /\ out.upstream.called /\ out.upstream.status = 500
    /\ \A i \in Slots : inflight[i] = Idle

\* C28: the upstream request of a forwarded request has the stored
\* credential as its Cookie header (nothing of the client's cookie), the
\* inbound method, and the inbound path without its leading '/proxy'
\* followed by the inbound query string.
C28_UpstreamRequestShape ==
    (Answered /\ out.handler = "proxy" /\ out.upstream.called) =>
        /\ out.upstream.cookie = issued[out.req.cookie]
        /\ FindFrom(out.upstream.cookie, out.req.cookie, 1) = 0
        /\ FindFrom(out.upstream.cookie, PROXY_SESSION_COOKIE_NAME, 1) = 0
        /\ out.upstream.method = out.req.method
        /\ out.upstream.url =
               "https://newsblur.com" \o SubSeq(out.req.path, 7, Len(out.req.path))
                   \o out.req.search
        /\ out.req.path = "/proxy/reader/proxy/river" =>
               out.upstream.url = "https://newsblur.com/reader/proxy/river?page=2"

\* a path with a second '/proxy' and a query string was forwarded
C28_Witness ==
    /\ Answered /\ out.handler = "proxy" /\ out.upstream.called
    /\ out.req.path = "/proxy/reader/proxy/river" /\ out.req.search = "?page=2"
    /\ out.upstream.url = "https://newsblur.com/reader/proxy/river?page=2"

\* the origin the request should be served for: its Origin header when it
\* has one, else FRONTEND_URL
ExpectedOrigin(req) == IF Truthy(req.origin) THEN req.origin ELSE env.FRONTEND_URL

\* C30: for every request the CORS middleware is configured with the
\* request's own Origin header when it has one, whatever FRONTEND_URL is,
\* and with FRONTEND_URL when it has none; the origin of a request depends
\* on that request only.
C30_OriginResolvedPerRequest ==
    /\ Answered =>
          /\ Truthy(out.req.origin) =>
                /\ out.hist.corsOrigin = out.req.origin
                /\ \E h \in out.headers :
                      h.name = "access-control-allow-origin" /\ h.value = out.req.origin
          /\ (~Truthy(out.req.origin) /\ Truthy(env.FRONTEND_URL)) =>
                out.hist.corsOrigin = env.FRONTEND_URL
          /\ \A h \in out.headers :
                h.name = "access-control-allow-origin" => h.value = out.req.origin
    /\ \A i \in Slots :
          inflight[i] # Idle => inflight[i].hist.corsOrigin = ExpectedOrigin(inflight[i].req)

\* a request from the worker's own origin while FRONTEND_URL names another
C30_Witness ==
    /\ Answered /\ Truthy(env.FRONTEND_URL)
    /\ Truthy(out.req.origin) /\ out.req.origin # env.FRONTEND_URL
    /\ out.hist.corsOrigin = out.req.origin
    /\ out.status = 200

\* C29: concurrent forwarded requests of one session are fetched with the
\* same stored credential; a request past its store read is answered with
\* its own upstream response whatever happened to the session meanwhile,
\* and completing a request whose upstream status is not 401/403 changes
\* neither the store nor the pending tasks.
C29_ConcurrentForwards ==
    /\ [](\A i, j \in DOMAIN inflight :
             (/\ inflight[i].pc = "fetch" /\ inflight[j].pc = "fetch"
              /\ inflight[i].req.cookie = inflight[j].req.cookie)
             => /\ inflight[i].cred = inflight[j].cred
                /\ inflight[i].cred = issued[inflight[i].req.cookie])
    /\ []((Answered /\ out.handler = "proxy" /\ out.upstream.called
              /\ out.upstream.status \notin {0, 401, 403})
             => /\ out.status = out.upstream.status
                /\ out.body = out.upstream.body
                /\ out.upstream.cookie = issued[out.req.cookie]
                /\ out.scheduled = {})
    /\ [][(/\ out' # out /\ out'.status # 0 /\ out'.handler = "proxy"
           /\ out'.upstream.status \notin {401, 403})
          => store' = store /\ tasks' = tasks]_vars

\* two requests of the session in flight at once, one answered 200 after
\* the other got 401 from upstream and the delete took effect
C29_Witness ==
    /\ Answered /\ out.handler = "proxy" /\ out.status = 200
    /\ ~out.hist.late
    /\ out.req.cookie \in rejected
    /\ out.req.cookie \in purged
    /\ store[out.req.cookie] = Absent
    /\ \E i \in DOMAIN inflight : inflight[i] # Idle

\* ------------------------------------------------------------------------
\* Cookie policy
\* ------------------------------------------------------------------------
LocalDevHosts == {"localhost", "127.0.0.1"}

\* C31: the secure flag is false exactly for a parseable request URL whose
\* scheme is not https and whose host is localhost or 127.0.0.1; it is true
\* for https, for any other host, and for a URL that cannot be parsed
C31_SecureFlag ==
    policy.evaluated =>
        (policy.secure = FALSE <=>
            (workerUrl.ok /\ workerUrl.scheme # "https" /\ workerUrl.host \in LocalDevHosts))

C31_Witness ==
    /\ policy.evaluated
    /\ workerUrl.ok /\ workerUrl.scheme = "http" /\ workerUrl.host = "127.0.0.1"
    /\ policy.secure = FALSE

\* the origin of a URL written out from its scheme, host and port
SerializedOrigin(u) ==
    u.scheme \o "://" \o u.host \o
    (IF (u.scheme = "http" /\ u.port = "80") \/ (u.scheme = "https" /\ u.port = "443")
     THEN "" ELSE ":" \o u.port)

\* C32: SameSite is Lax exactly when the Origin header is present and equal
\* to the origin of the request URL, and None when it differs in scheme, host
\* or port or is absent
C32_SameSite ==
    policy.evaluated =>
        /\ policy.sameSite \in {"Lax", "None"}
        /\ policy.sameSite = "Lax" <=>
               (workerUrl.ok /\ policy.origin # Absent
                /\ policy.origin = SerializedOrigin(workerUrl))

C32_Witness ==
    /\ policy.evaluated
    /\ workerUrl.ok /\ workerUrl.port = "8787"
    /\ policy.origin = SerializedOrigin(workerUrl)
    /\ policy.sameSite = "Lax"

\* ------------------------------------------------------------------------
\* Frontend
\* ------------------------------------------------------------------------
\* the handlers that begin with `if (isLoading) return`
GuardedHandlers ==
    {"handleLoginSubmit", "handleLogout", "handleFeedItemClick", "BackToFeedsClick",
     "handleBackToStoryListClick"}

frontendState == <<isLoading, currentFeeds, currentStories, dom, pending, bootTrace>>

\* C33: a login submit, a logout click, a feed item click, a back-to-feeds
\* click or a back-to-story-list click handled while isLoading is true
\* changes neither the view nor any other state and starts no API call, and
\* at most one API operation started by a handler is in flight at any time
C33_LoadingBlocksHandlers ==
    /\ [](Len(pending) <= 1)
    /\ [][(isLoading /\ lastEvent'.name \in {"submit", "click"}
                     /\ lastEvent'.fn \in GuardedHandlers)
            => (UNCHANGED frontendState /\ lastEvent'.started = "none")]_vars

C33_Witness ==
    /\ isLoading
    /\ Len(pending) = 1
    /\ pending[1].api = "getStoriesForFeed"
    /\ lastEvent.name = "click"
    /\ lastEvent.fn = "BackToFeedsClick"
    /\ lastEvent.loading
    /\ dom.view = "story-list-view"

\* C34: isLoading is true only while an API operation is in flight, and a
\* handler whose call has settled, resolved or rejected, without going on
\* to another call leaves isLoading false
C34_LoadingIsReset ==
    /\ isLoading => pending # <<>>
    /\ (lastEvent.name = "settled" /\ lastEvent.started = "none") => ~isLoading

C34_Witness ==
    /\ lastEvent.name = "settled"
    /\ lastEvent.fn = "checkAuthAndLoadView"
    /\ lastEvent.result = "threw"
    /\ pending = <<>>
    /\ ~isLoading

\* C35: whenever the auth check, the feed load or the story load is answered
\* 401, the app is in the login view afterwards and holds no feeds and no
\* stories
C35_Any401ShowsLogin ==
    (/\ lastEvent.name = "settled"
     /\ lastEvent.settled \in {"checkAuth", "getFeeds", "getStoriesForFeed"}
     /\ ~lastEvent.outcome.rejects
     /\ lastEvent.outcome.status = 401)
    => /\ dom.view = "login-view"
       /\ currentFeeds = <<>> /\ dom.feedList = <<>>
       /\ currentStories = <<>> /\ dom.storyList = <<>>

\* the request for the feeds was answered and its body could be used
FeedsRequestSucceeds(o) ==
    ~o.rejects /\ o.status \in 200..299 /\ (o.status = 204 \/ o.parses)

\* C36: checkAuth returns true when the feeds request succeeds, false when
\* it fails with status 401, and throws the error of the request for every
\* other failure
C36_CheckAuth ==
    lastEvent.settled = "checkAuth" =>
        LET o == lastEvent.outcome
        IN  /\ FeedsRequestSucceeds(o) => lastEvent.result = "true"
            /\ (~o.rejects /\ o.status = 401) => lastEvent.result = "false"
            /\ (~FeedsRequestSucceeds(o) /\ (o.rejects \/ o.status # 401))
                   => /\ lastEvent.result = "threw"
                      /\ lastEvent.error = getFeeds(o).error

C36_Witness ==
    /\ lastEvent.settled = "checkAuth"
    /\ lastEvent.outcome.status = 500
    /\ lastEvent.result = "threw"
    /\ lastEvent.error.hasStatus /\ lastEvent.error.status = 500

\* C37: on startup, an auth check that returns false or throws leads to the
\* login view without a request for the feeds; an auth check that returns
\* true leads to the feed list view and exactly one request for the feeds
C37_Startup ==
    /\ []((lastEvent.settled = "checkAuth" /\ lastEvent.result \in {"false", "threw"})
             => /\ dom.view = "login-view"
                /\ lastEvent.started = "none"
                /\ bootTrace = <<"checkAuth">>)
    /\ []((lastEvent.settled = "checkAuth" /\ lastEvent.result = "true")
             => /\ dom.view = "feed-list-view"
                /\ lastEvent.started = "getFeeds"
                /\ bootTrace = <<"checkAuth", "getFeeds">>)
    /\ []((lastEvent.root = "checkAuthAndLoadView" /\ lastEvent.settled = "getFeeds")
             => /\ dom.view = "feed-list-view"
                /\ lastEvent.started = "none"
                /\ bootTrace = <<"checkAuth", "getFeeds">>)
    /\ [][bootTrace' # bootTrace
             => (lastEvent'.settled = "checkAuth" /\ lastEvent'.result = "true")]_vars

C37_Witness ==
    /\ lastEvent.root = "checkAuthAndLoadView"
    /\ lastEvent.settled = "getFeeds"
    /\ lastEvent.result = "resolved"
    /\ bootTrace = <<"checkAuth", "getFeeds">>
    /\ dom.view = "feed-list-view"
    /\ currentFeeds = Feeds

\* the login request was answered with a JSON body saying authenticated: true
LoginAuthenticated(o) ==
    /\ ~o.rejects /\ o.status \in 200..299 /\ o.status # 204
    /\ o.parses /\ o.body.authenticated = "true"

\* C38: when the login call rejects, also for a 200 answer with
\* authenticated: false, the view stays as it was, an error message is shown,
\* the login button is enabled again and no feeds are requested; the login
\* handler reaches the feed list view only after a login answered with
\* authenticated: true
C38_LoginFailureStaysOnLogin ==
    /\ []((lastEvent.settled = "login" /\ ~LoginAuthenticated(lastEvent.outcome))
             => /\ lastEvent.result = "rejected"
                /\ dom.loginMessage # "" /\ dom.loginMessageIsError
                /\ ~dom.loginButtonDisabled
                /\ lastEvent.started = "none"
                /\ ~isLoading)
    /\ [][(lastEvent'.settled = "login" /\ ~LoginAuthenticated(lastEvent'.outcome))
             => dom'.view = dom.view]_vars
    /\ [][(lastEvent'.root = "handleLoginSubmit" /\ dom'.view = "feed-list-view"
                                                 /\ dom.view # "feed-list-view")
             => (lastEvent'.settled = "login" /\ LoginAuthenticated(lastEvent'.outcome))]_vars

C38_Witness ==
    /\ lastEvent.settled = "login"
    /\ lastEvent.outcome.status = 200
    /\ lastEvent.outcome.body.authenticated = "false"
    /\ dom.view = "login-view"
    /\ dom.loginMessage = "Login failed"
    /\ ~dom.loginButtonDisabled

\* C39: when the logout handler has run to its end, the login view is shown
\* and isLoading is false, whether the logout call resolved or rejected
C39_LogoutAlwaysShowsLogin ==
    lastEvent.settled = "logout" => (dom.view = "login-view" /\ ~isLoading)

C39_Witness ==
    /\ lastEvent.settled = "logout"
    /\ lastEvent.result = "rejected"
    /\ dom.view = "login-view"
    /\ ~isLoading
    /\ currentFeeds = Feeds
====
